---- MODULE Spec2Model ----
(***************************************************************************)
(* A model of the recommendation pipeline of app.py: the concurrent        *)
(* enrichment of candidates (attach_imdb_ids), the library snapshot cache  *)
(* (_library_cache, fetch_sonarr_sample, fetch_radarr_sample,              *)
(* get_owned_title_sets, clear_cache), the candidate filter of             *)
(* get_recommendations (normalize_title, is_talk_show) and the credit      *)
(* aggregator (tmdb_get_person_credits, lookup_credit in specific_search). *)
(*                                                                         *)
(* Python values are tagged: None, I(n) for an int, S(chars) for a str     *)
(* (a sequence of one-character strings), L(seq) for a list and D(rec)     *)
(* for a dict (a function from keys to values).                            *)
(***************************************************************************)
EXTENDS Integers, Sequences, FiniteSets, TLC

VARIABLES
    \* ---- attach_imdb_ids: one call of the enrichment engine
    epc,        \* "idle" | "collect" (inside the with-block) | "returned"
    recs,       \* the argument: a sequence of candidate dicts
    fut,        \* per index, the future's state: queued | running | done | yielded
    outcome,    \* per index, what the catalog lookup did (Pending until known)
    issued,     \* per index, the catalog call the task made (None if none yet)
    futResult,  \* per index, the value the future holds once done
    results,    \* the results list of attach_imdb_ids
    collected,  \* the indices in the order as_completed yielded them
    output,     \* the value attach_imdb_ids returned
    \* ---- the snapshot cache and the threads that use it
    cache,      \* _library_cache: source -> [data, timestamp]
    cacheLock,  \* _cache_lock: NoThread or the thread that holds it
    now,        \* time.time(), in seconds
    pc,         \* per thread, its position
    op,         \* per thread, the function it runs
    useCache,   \* per thread, the use_cache argument
    src,        \* per thread, the source it is working on
    loc,        \* per thread, the local series / movies
    ownedTv,    \* per thread, owned_tv of get_owned_title_sets
    result,     \* per thread, the value returned
    errlog,     \* per thread, the sources whose fetch error it printed
    heldAtClear,    \* per thread: it held fetched data when clear_cache ran
    entryPreClear,  \* per source: the entry's data was fetched before the last clear
    \* ---- the search history
    historyLock,    \* _history_lock: NoThread or the thread that holds it
    history,    \* the number of entries of the history list
    \* ---- get_recommendations: one call, from json.loads on
    gpc,        \* "idle" | "kinds" | "owned" | "filter" | "returned"
    raw_recs,   \* data.get("recommendations", [])
    grecs,      \* recs: the list attach_imdb_ids returned, then with kinds resolved
    queried,    \* per candidate, the catalog its lookup asked ("none": no lookup)
    owned_tv,   \* owned_tv of get_recommendations
    owned_movies,   \* owned_movies of get_recommendations
    filtered,   \* the filtered list
    kept,       \* the positions of recs appended to filtered, in order
    raisedIn,   \* "none", or the step whose exception the except-branch caught
    goutput,    \* the value get_recommendations returned
    \* ---- normalize_title: its last call
    title_arg,  \* the argument
    title_norm, \* the str returned
    \* ---- specific_search for an actor, from tmdb_get_person_credits on
    cpc,        \* "idle" | "collect" (inside the with-block) | "done"
    cast,       \* data.get("cast", []) of the metadata source
    limit_arg,  \* the limit argument of tmdb_get_person_credits
    tmdb_credits,   \* the list tmdb_get_person_credits returned
    rank_of,    \* per credit returned, its position in the sorted filtered_credits
    cfut,       \* per credit, the future's state: queued | running | done | yielded
    coutcome,   \* per credit, what the catalog lookup did (Pending until known)
    cissued,    \* per credit, the catalog call the task made (None if none yet)
    cresult,    \* per credit, the value the future holds once done
    search_results, \* the search_results list
    source_of   \* per element of search_results, the credit it was resolved from

enrichVars == <<epc, recs, fut, outcome, issued, futResult, results, collected,
                output>>
cacheVars == <<cache, cacheLock, now, pc, op, useCache, src, loc, ownedTv,
               result, errlog, heldAtClear, entryPreClear>>
filterVars == <<gpc, raw_recs, grecs, queried, owned_tv, owned_movies, filtered, kept,
                raisedIn, goutput>>
normVars == <<title_arg, title_norm>>
creditVars == <<cpc, cast, limit_arg, tmdb_credits, rank_of, cfut, coutcome,
                cissued, cresult, search_results, source_of>>
historyVars == <<historyLock, history>>
vars == <<enrichVars, cacheVars, filterVars, normVars, creditVars, historyVars>>

\* What the actions of one part leave alone: the variables of the others
outsideEnrich == <<cacheVars, filterVars, normVars, creditVars, historyVars>>
outsideCache == <<enrichVars, filterVars, normVars, creditVars, historyVars>>
outsideFilter == <<enrichVars, cacheVars, normVars, creditVars, historyVars>>
outsideNormalize == <<enrichVars, cacheVars, filterVars, creditVars, historyVars>>
outsideCredits == <<enrichVars, cacheVars, filterVars, normVars, historyVars>>
outsideThreads == <<enrichVars, filterVars, normVars, creditVars>>

---------------------------------------------------------------------------
(* Python values *)

None == [none |-> TRUE]
I(n) == [int |-> n]
S(chars) == [str |-> chars]
L(seq) == [list |-> seq]
D(rec) == [dict |-> rec]

IsNone(v) == "none" \in DOMAIN v
IsDict(v) == "dict" \in DOMAIN v

\* Python truthiness: bool(v)
Truthy(v) ==
    IF "none" \in DOMAIN v THEN FALSE
    ELSE IF "int" \in DOMAIN v THEN v.int # 0
    ELSE IF "str" \in DOMAIN v THEN Len(v.str) > 0
    ELSE IF "list" \in DOMAIN v THEN Len(v.list) > 0
    ELSE IF "dict" \in DOMAIN v THEN DOMAIN v.dict # {}
    ELSE TRUE

\* d.get(k): the value under k, None when the key is missing
Get(d, k) == IF k \in DOMAIN d.dict THEN d.dict[k] ELSE None

\* d.get(k, default)
GetOr(d, k, default) == IF k \in DOMAIN d.dict THEN d.dict[k] ELSE default

\* {**r, "imdb_id": imdb_id, "rating": rating}
WithIds(r, imdb_id, rating) ==
    D([k \in DOMAIN r.dict \cup {"imdb_id", "rating"} |->
         IF k = "imdb_id" THEN imdb_id
         ELSE IF k = "rating" THEN rating
         ELSE r.dict[k]])

RECURSIVE Digits(_)
\* str(n) for n >= 0
Digits(n) ==
    LET d == <<"0", "1", "2", "3", "4", "5", "6", "7", "8", "9">>
    IN IF n < 10 THEN <<d[n + 1]>> ELSE Digits(n \div 10) \o <<d[(n % 10) + 1]>>

\* str(v) as an f-string formats it
Format(v) ==
    IF "str" \in DOMAIN v THEN v.str
    ELSE IF "int" \in DOMAIN v THEN Digits(v.int)
    ELSE <<"N", "o", "n", "e">>

---------------------------------------------------------------------------
(* The enrichment engine: attach_imdb_ids and lookup_single_rec *)

\* ThreadPoolExecutor(max_workers=5)
max_workers == 5

\* The longest candidate list submitted
MaxRecs == 3

Movie == <<"m", "o", "v", "i", "e">>
Tv == <<"t", "v">>

\* The candidates a batch is drawn from: a movie with a year, a series
\* without the year key, and a candidate whose title is empty
Candidates ==
    { D([type |-> S(Movie), title |-> S(<<"D", "u", "n", "e">>),
         year |-> I(2021), reason |-> S(<<"r", "1">>)]),
      D([type |-> S(Tv), title |-> S(<<"L", "o", "s", "t">>),
         reason |-> S(<<"r", "2">>)]),
      D([type |-> S(Movie), title |-> S(<<>>), year |-> None]) }

RecLists == UNION {[1..n -> Candidates] : n \in 0..MaxRecs}

\* What a catalog lookup can answer: no record, two records of which the
\* first carries an IMDb rating, or one record whose rating is malformed
LookupResponses ==
    { L(<<>>),
      L(<<D([imdbId |-> S(<<"t", "t", "1">>),
             ratings |-> D([imdb |-> D([value |-> I(8)])])]),
          D([imdbId |-> S(<<"t", "t", "9">>)])>>),
      L(<<D([imdbId |-> S(<<"t", "t", "2">>),
             ratings |-> D([imdb |-> I(7)])])>>) }

Pending == [kind |-> "pending"]
Skipped == [kind |-> "skipped"]
Raised == [kind |-> "raised"]
Stalled == [kind |-> "stalled"]
Answered(resp) == [kind |-> "answered", resp |-> resp]

extract_rating(ratings_obj) ==
    IF Truthy(ratings_obj) /\ IsDict(ratings_obj)
    THEN LET imdb_rating == GetOr(ratings_obj, "imdb", D(<<>>))
         IN IF IsDict(imdb_rating) THEN Get(imdb_rating, "value") ELSE None
    ELSE None

SearchTermBare(r) == Get(r, "title")

\* term = f"{title} ({year})" if year else title
SearchTerm(r) ==
    IF Truthy(Get(r, "year"))
    THEN S(Format(Get(r, "title")) \o <<" ", "(">> \o Format(Get(r, "year")) \o <<")">>)
    ELSE Get(r, "title")

\* if media_type == "tv": sonarr_get(...) else: radarr_get(...)
LookupCatalog(r) == IF Get(r, "type") = S(Tv) THEN "sonarr" ELSE "radarr"

LookupCall(r) == [catalog |-> LookupCatalog(r), term |-> SearchTerm(r)]

\* if not title: return {**r, "imdb_id": None, "rating": None}
WithoutTitle(r) == WithIds(r, None, None)

\* the try-block of lookup_single_rec once the catalog has answered
FromResponse(r, resp) ==
    IF Truthy(resp)
    THEN WithIds(r, Get(resp.list[1], "imdbId"),
                 extract_rating(Get(resp.list[1], "ratings")))
    ELSE WithIds(r, None, None)

OnLookupErrorDrops(r) == None

\* except Exception: print(...); imdb_id and rating are still None
OnLookupError(r) == WithIds(r, None, None)

StoreResultInCompletionOrder(res, idx, v) ==
    LET free == {i \in 1..Len(res) : IsNone(res[i])}
        first == CHOOSE i \in free : \A j \in free : i <= j
    IN [res EXCEPT ![first] = v]

\* results[idx] = future.result(timeout=60)
StoreResult(res, idx, v) == [res EXCEPT ![idx] = v]

\* the worker threads that are inside a task
Busy == {i \in 1..Len(fut) : fut[i] = "running"}

WorkerFreeAlways == TRUE

\* max_workers=5: a queued task starts only while fewer than five run
WorkerFree == Cardinality(Busy) < max_workers

InitEnrich ==
    /\ epc = "idle"
    /\ recs = <<>>
    /\ fut = <<>>
    /\ outcome = <<>>
    /\ issued = <<>>
    /\ futResult = <<>>
    /\ results = <<>>
    /\ collected = <<>>
    /\ output = None

\* attach_imdb_ids(rs) is called: every candidate is submitted to the pool.
\* A call shares nothing with the calls before it, so a run follows one call.
Submit(rs) ==
    /\ epc = "idle"
    /\ epc' = "collect"
    /\ recs' = rs
    /\ fut' = [i \in 1..Len(rs) |-> "queued"]
    /\ outcome' = [i \in 1..Len(rs) |-> Pending]
    /\ issued' = [i \in 1..Len(rs) |-> None]
    /\ futResult' = [i \in 1..Len(rs) |-> None]
    /\ results' = [i \in 1..Len(rs) |-> None]
    /\ collected' = <<>>
    /\ output' = None
    /\ UNCHANGED outsideEnrich

\* a free worker takes the oldest queued task and runs lookup_single_rec up
\* to its catalog call; a candidate without a title returns at once
StartLookup(i) ==
    /\ epc = "collect"
    /\ fut[i] = "queued"
    /\ \A j \in 1..(i - 1) : fut[j] # "queued"
    /\ WorkerFree
    /\ IF ~Truthy(Get(recs[i], "title"))
       THEN /\ fut' = [fut EXCEPT ![i] = "done"]
            /\ futResult' = [futResult EXCEPT ![i] = WithoutTitle(recs[i])]
            /\ outcome' = [outcome EXCEPT ![i] = Skipped]
            /\ UNCHANGED issued
       ELSE /\ fut' = [fut EXCEPT ![i] = "running"]
            /\ issued' = [issued EXCEPT ![i] = LookupCall(recs[i])]
            /\ UNCHANGED <<futResult, outcome>>
    /\ UNCHANGED <<epc, recs, results, collected, output, outsideEnrich>>

\* sonarr_get / radarr_get returns resp
LookupReturns(i, resp) ==
    /\ fut[i] = "running"
    /\ outcome[i] = Pending
    /\ fut' = [fut EXCEPT ![i] = "done"]
    /\ futResult' = [futResult EXCEPT ![i] = FromResponse(recs[i], resp)]
    /\ outcome' = [outcome EXCEPT ![i] = Answered(resp)]
    /\ UNCHANGED <<epc, recs, issued, results, collected, output, outsideEnrich>>

\* sonarr_get / radarr_get raises
LookupRaises(i) ==
    /\ fut[i] = "running"
    /\ outcome[i] = Pending
    /\ fut' = [fut EXCEPT ![i] = "done"]
    /\ futResult' = [futResult EXCEPT ![i] = OnLookupError(recs[i])]
    /\ outcome' = [outcome EXCEPT ![i] = Raised]
    /\ UNCHANGED <<epc, recs, issued, results, collected, output, outsideEnrich>>

\* the catalog never answers this call: the task stays inside it
LookupStalls(i) ==
    /\ fut[i] = "running"
    /\ outcome[i] = Pending
    /\ outcome' = [outcome EXCEPT ![i] = Stalled]
    /\ UNCHANGED <<epc, recs, fut, issued, futResult, results, collected, output,
                   outsideEnrich>>

\* as_completed yields a finished future; its result is stored by index
Collect(i) ==
    /\ epc = "collect"
    /\ fut[i] = "done"
    /\ fut' = [fut EXCEPT ![i] = "yielded"]
    /\ results' = StoreResult(results, i, futResult[i])
    /\ collected' = Append(collected, i)
    /\ UNCHANGED <<epc, recs, outcome, issued, futResult, output, outsideEnrich>>

\* as_completed is exhausted and the with-block has joined the workers
Return ==
    /\ epc = "collect"
    /\ \A i \in 1..Len(fut) : fut[i] = "yielded"
    /\ epc' = "returned"
    /\ output' = results
    /\ UNCHANGED <<recs, fut, outcome, issued, futResult, results, collected,
                   outsideEnrich>>

NextEnrich ==
    \/ \E rs \in RecLists : Submit(rs)
    \/ \E i \in 1..Len(fut) : StartLookup(i)
    \/ \E i \in 1..Len(fut), resp \in LookupResponses : LookupReturns(i, resp)
    \/ \E i \in 1..Len(fut) : LookupRaises(i)
    \/ \E i \in 1..Len(fut) : LookupStalls(i)
    \/ \E i \in 1..Len(fut) : Collect(i)
    \/ Return

---------------------------------------------------------------------------
(* The snapshot cache: _library_cache, _cache_lock and their users *)

CACHE_TTL_SECONDS == 300

SAMPLE_SIZE == 120

Sources == {"sonarr", "radarr"}

\* The request threads; NoThread is the lock's free state
Threads == {1, 2, 3}
NoThread == 0

\* time.time() when the process starts is far more than one TTL past the epoch
StartTime == 4 * CACHE_TTL_SECONDS

\* The clock is observed every half TTL, MaxTicks times
TickStep == CACHE_TTL_SECONDS \div 2
MaxTicks == 2

Upper == <<"A", "B", "C", "D", "E", "F", "G", "H", "I", "J", "K", "L", "M",
           "N", "O", "P", "Q", "R", "S", "T", "U", "V", "W", "X", "Y", "Z">>
Lowercase == <<"a", "b", "c", "d", "e", "f", "g", "h", "i", "j", "k", "l", "m",
               "n", "o", "p", "q", "r", "s", "t", "u", "v", "w", "x", "y", "z">>
DigitChars == {"0", "1", "2", "3", "4", "5", "6", "7", "8", "9"}
UpperLetters == {Upper[i] : i \in 1..26}
LowerLetters == {Lowercase[i] : i \in 1..26}

\* str.lower() of one ASCII character
LowerChar(c) ==
    IF c \in UpperLetters
    THEN Lowercase[CHOOSE i \in 1..26 : Upper[i] = c]
    ELSE c

RECURSIVE Lower(_)
\* s.lower() of an ASCII str
Lower(chars) ==
    IF chars = <<>> THEN <<>>
    ELSE <<LowerChar(Head(chars))>> \o Lower(Tail(chars))

\* str.isalnum() of one ASCII character
IsAlnum(c) == c \in UpperLetters \cup LowerLetters \cup DigitChars

RECURSIVE FilterAlnum(_)
FilterAlnum(chars) ==
    IF chars = <<>> THEN <<>>
    ELSE (IF IsAlnum(Head(chars)) THEN <<Head(chars)>> ELSE <<>>)
         \o FilterAlnum(Tail(chars))

normalize_titleKeepCase(title) ==
    IF ~Truthy(title) THEN <<>> ELSE FilterAlnum(title.str)

\* "".join(filter(str.isalnum, title.lower())), "" for a falsy title
normalize_title(title) ==
    IF ~Truthy(title) THEN <<>>
    ELSE FilterAlnum(Lower(title.str))

\* What GET /series can list: two states of the series library
SeriesListings ==
    { L(<<D([title |-> S(<<"L", "o", "s", "t">>), year |-> I(2004), id |-> I(1)])>>),
      L(<<D([title |-> S(<<"L", "o", "s", "t">>), year |-> I(2004), id |-> I(1)]),
          D([title |-> S(<<"D", "-", "a", "R", "k">>), year |-> I(2017), id |-> I(2)])>>) }

\* What GET /movie can list: two states of the movie library
MovieListings ==
    { L(<<D([title |-> S(<<"D", "u", "n", "e">>), year |-> I(2021), id |-> I(7)])>>),
      L(<<D([title |-> S(<<"D", "u", "n", "e">>), year |-> I(2021), id |-> I(7)]),
          D([title |-> S(<<"U", "p", "!">>), id |-> I(8)])>>) }

Listings(s) == IF s = "sonarr" THEN SeriesListings ELSE MovieListings

Min(a, b) == IF a < b THEN a ELSE b

\* the list comprehension over series[:SAMPLE_SIZE] / movies[:SAMPLE_SIZE]
Sample(s, data) ==
    LET head == SubSeq(data.list, 1, Min(Len(data.list), SAMPLE_SIZE))
    IN L([i \in 1..Len(head) |->
            IF s = "sonarr"
            THEN D([title |-> Get(head[i], "title"), year |-> Get(head[i], "year"),
                    genres |-> Get(head[i], "genres"), status |-> Get(head[i], "status"),
                    network |-> Get(head[i], "network")])
            ELSE D([title |-> Get(head[i], "title"), year |-> Get(head[i], "year"),
                    genres |-> Get(head[i], "genres"), studio |-> Get(head[i], "studio")])])

\* the loop that fills owned_tv / owned_movies
OwnedSet(data) ==
    {normalize_title(GetOr(data.list[i], "title", S(<<>>))) : i \in 1..Len(data.list)}
        \ {<<>>}

ClearedEntry == [data |-> None, timestamp |-> 0]

IsFreshInclusive(cached, t) ==
    (~IsNone(cached.data)) /\ (t - cached.timestamp) <= CACHE_TTL_SECONDS

\* cached["data"] is not None and (time.time() - cached["timestamp"]) < CACHE_TTL_SECONDS
IsFresh(cached, t) ==
    (~IsNone(cached.data)) /\ (t - cached.timestamp) < CACHE_TTL_SECONDS

StoredInPlace(c, s, data, t) == [c EXCEPT ![s].data = data]

StoredInBoth(c, s, data, t) ==
    [x \in DOMAIN c |-> IF x = s THEN [data |-> data, timestamp |-> t]
                        ELSE [c[x] EXCEPT !.timestamp = t]]

\* _library_cache[s] = {"data": data, "timestamp": time.time()}
Stored(c, s, data, t) == [c EXCEPT ![s] = [data |-> data, timestamp |-> t]]

CanAcquireAlways == TRUE

\* Lock.acquire() succeeds only on a free lock
CanAcquire == cacheLock = NoThread

IsSample(o) == o \in {"fetch_sonarr_sample", "fetch_radarr_sample"}

Returned(v) == [value |-> v]
Exception == [exception |-> TRUE]
OwnedPair(tv, movies) == [owned_tv |-> tv, owned_movies |-> movies]

SampleOnErrorRaises(t) == Exception

SampleOnErrorStale(t) ==
    IF IsNone(cache[src[t]].data) THEN Returned(L(<<>>))
    ELSE Returned(Sample(src[t], cache[src[t]].data))

\* except Exception as e: print(...); return []
SampleOnError(t) == Returned(L(<<>>))

\* except Exception as e: print(...): the owned set of the source stays empty
OwnedOnError(t) == {}

InitCache ==
    /\ cache = [s \in Sources |-> ClearedEntry]
    /\ cacheLock = NoThread
    /\ now = StartTime
    /\ pc = [t \in Threads |-> "idle"]
    /\ op = [t \in Threads |-> "none"]
    /\ useCache = [t \in Threads |-> TRUE]
    /\ src = [t \in Threads |-> "sonarr"]
    /\ loc = [t \in Threads |-> None]
    /\ ownedTv = [t \in Threads |-> {}]
    /\ result = [t \in Threads |-> None]
    /\ errlog = [t \in Threads |-> {}]
    /\ heldAtClear = [t \in Threads |-> FALSE]
    /\ entryPreClear = [s \in Sources |-> FALSE]

\* The threads of the general runs; the third one joins the stampede runs
Callers == {1, 2}

SampleOp(s) == IF s = "sonarr" THEN "fetch_sonarr_sample" ELSE "fetch_radarr_sample"

\* fetch_sonarr_sample(use_cache=uc) / fetch_radarr_sample(use_cache=uc) is called
CallSample(t, s, uc) ==
    /\ pc[t] = "idle"
    /\ op' = [op EXCEPT ![t] = SampleOp(s)]
    /\ useCache' = [useCache EXCEPT ![t] = uc]
    /\ src' = [src EXCEPT ![t] = s]
    /\ pc' = [pc EXCEPT ![t] = IF uc THEN "check_acq" ELSE "fetch"]
    /\ UNCHANGED <<cache, cacheLock, now, loc, ownedTv, result, errlog,
                   heldAtClear, entryPreClear, outsideCache>>

\* get_owned_title_sets() is called: it starts with the series source
CallOwned(t) ==
    /\ pc[t] = "idle"
    /\ op' = [op EXCEPT ![t] = "get_owned_title_sets"]
    /\ useCache' = [useCache EXCEPT ![t] = TRUE]
    /\ src' = [src EXCEPT ![t] = "sonarr"]
    /\ pc' = [pc EXCEPT ![t] = "check_acq"]
    /\ UNCHANGED <<cache, cacheLock, now, loc, ownedTv, result, errlog,
                   heldAtClear, entryPreClear, outsideCache>>

\* clear_cache() is called
CallClear(t) ==
    /\ pc[t] = "idle"
    /\ op' = [op EXCEPT ![t] = "clear_cache"]
    /\ pc' = [pc EXCEPT ![t] = "clear_acq"]
    /\ UNCHANGED <<cache, cacheLock, now, useCache, src, loc, ownedTv, result,
                   errlog, heldAtClear, entryPreClear, outsideCache>>

\* with _cache_lock: the thread enters the block
Acquire(t) ==
    /\ pc[t] \in {"check_acq", "store_acq", "clear_acq"}
    /\ CanAcquire
    /\ cacheLock' = t
    /\ pc' = [pc EXCEPT ![t] = IF pc[t] = "check_acq" THEN "check_cs"
                               ELSE IF pc[t] = "store_acq" THEN "store_cs"
                               ELSE "clear_cs"]
    /\ UNCHANGED <<cache, now, op, useCache, src, loc, ownedTv, result, errlog,
                   heldAtClear, entryPreClear, outsideCache>>

\* What the function does once it holds the listing of its current source:
\* a sample function returns the sample; get_owned_title_sets fills the
\* owned set and goes on to the movie source, or returns both sets
UseData(t, data) ==
    IF IsSample(op[t])
    THEN /\ result' = [result EXCEPT ![t] = Returned(Sample(src[t], data))]
         /\ pc' = [pc EXCEPT ![t] = "done"]
         /\ loc' = [loc EXCEPT ![t] = None]
         /\ UNCHANGED <<src, ownedTv>>
    ELSE IF src[t] = "sonarr"
    THEN /\ ownedTv' = [ownedTv EXCEPT ![t] = OwnedSet(data)]
         /\ src' = [src EXCEPT ![t] = "radarr"]
         /\ pc' = [pc EXCEPT ![t] = "check_acq"]
         /\ loc' = [loc EXCEPT ![t] = None]
         /\ UNCHANGED result
    ELSE /\ result' = [result EXCEPT ![t] =
                          Returned(OwnedPair(ownedTv[t], OwnedSet(data)))]
         /\ pc' = [pc EXCEPT ![t] = "done"]
         /\ loc' = [loc EXCEPT ![t] = None]
         /\ UNCHANGED <<src, ownedTv>>

OnFetchErrorOneTry(t) ==
    /\ errlog' = [errlog EXCEPT ![t] = @ \cup {src[t]}]
    /\ loc' = [loc EXCEPT ![t] = None]
    /\ result' = [result EXCEPT ![t] =
                     IF IsSample(op[t]) THEN SampleOnError(t)
                     ELSE IF src[t] = "sonarr" THEN Returned(OwnedPair({}, {}))
                     ELSE Returned(OwnedPair(ownedTv[t], {}))]
    /\ pc' = [pc EXCEPT ![t] = "done"]
    /\ UNCHANGED <<src, ownedTv>>

\* the except-branch of the function for its current source
OnFetchError(t) ==
    /\ errlog' = [errlog EXCEPT ![t] = @ \cup {src[t]}]
    /\ loc' = [loc EXCEPT ![t] = None]
    /\ IF IsSample(op[t])
       THEN /\ result' = [result EXCEPT ![t] = SampleOnError(t)]
            /\ pc' = [pc EXCEPT ![t] = "done"]
            /\ UNCHANGED <<src, ownedTv>>
       ELSE IF src[t] = "sonarr"
       THEN /\ ownedTv' = [ownedTv EXCEPT ![t] = OwnedOnError(t)]
            /\ src' = [src EXCEPT ![t] = "radarr"]
            /\ pc' = [pc EXCEPT ![t] = "check_acq"]
            /\ UNCHANGED result
       ELSE /\ result' = [result EXCEPT ![t] =
                             Returned(OwnedPair(ownedTv[t], OwnedOnError(t)))]
            /\ pc' = [pc EXCEPT ![t] = "done"]
            /\ UNCHANGED <<src, ownedTv>>

LockKeptForFetch(t) == IF IsFresh(cache[src[t]], now) THEN NoThread ELSE t

\* the first with-block ends before the fetch: the lock is free again
LockAfterCheck(t) == NoThread

\* the body of the first with-block: read the entry, test its age, release
CheckBody(t) ==
    /\ pc[t] = "check_cs"
    /\ cacheLock' = LockAfterCheck(t)
    /\ IF IsFresh(cache[src[t]], now)
       THEN UseData(t, cache[src[t]].data)
       ELSE /\ pc' = [pc EXCEPT ![t] = "fetch"]
            /\ loc' = [loc EXCEPT ![t] = None]
            /\ UNCHANGED <<src, ownedTv, result>>
    /\ UNCHANGED <<cache, now, op, useCache, errlog, heldAtClear, entryPreClear,
                   outsideCache>>

\* sonarr_get("/series") / radarr_get("/movie") returns the listing d
FetchOk(t, d) ==
    /\ pc[t] = "fetch"
    /\ d \in Listings(src[t])
    /\ IF useCache[t]
       THEN /\ loc' = [loc EXCEPT ![t] = d]
            /\ pc' = [pc EXCEPT ![t] = "store_acq"]
            /\ UNCHANGED <<src, ownedTv, result>>
       ELSE UseData(t, d)
    /\ UNCHANGED <<cache, cacheLock, now, op, useCache, errlog, heldAtClear,
                   entryPreClear, outsideCache>>

\* sonarr_get("/series") / radarr_get("/movie") raises
FetchFail(t) ==
    /\ pc[t] = "fetch"
    /\ OnFetchError(t)
    /\ UNCHANGED <<cache, cacheLock, now, op, useCache, heldAtClear,
                   entryPreClear, outsideCache>>

\* the body of the second with-block: replace the entry, release
StoreBody(t) ==
    /\ pc[t] = "store_cs"
    /\ cache' = Stored(cache, src[t], loc[t], now)
    /\ cacheLock' = NoThread
    /\ entryPreClear' = [entryPreClear EXCEPT ![src[t]] = heldAtClear[t]]
    /\ heldAtClear' = [heldAtClear EXCEPT ![t] = FALSE]
    /\ UseData(t, loc[t])
    /\ UNCHANGED <<now, op, useCache, errlog, outsideCache>>

\* the body of clear_cache's with-block: both entries are reset, release
ClearBody(t) ==
    /\ pc[t] = "clear_cs"
    /\ cache' = [s \in Sources |-> ClearedEntry]
    /\ cacheLock' = NoThread
    /\ heldAtClear' = [u \in Threads |->
                          heldAtClear[u] \/ pc[u] \in {"store_acq", "store_cs"}]
    /\ entryPreClear' = [s \in Sources |-> FALSE]
    /\ result' = [result EXCEPT ![t] = Returned([redirect |-> "index"])]
    /\ pc' = [pc EXCEPT ![t] = "done"]
    /\ UNCHANGED <<now, op, useCache, src, loc, ownedTv, errlog, outsideCache>>

\* the caller has taken the returned value; the thread is free again
Finish(t) ==
    /\ pc[t] = "done"
    /\ pc' = [pc EXCEPT ![t] = "idle"]
    /\ op' = [op EXCEPT ![t] = "none"]
    /\ useCache' = [useCache EXCEPT ![t] = TRUE]
    /\ src' = [src EXCEPT ![t] = "sonarr"]
    /\ ownedTv' = [ownedTv EXCEPT ![t] = {}]
    /\ result' = [result EXCEPT ![t] = None]
    /\ errlog' = [errlog EXCEPT ![t] = {}]
    /\ UNCHANGED <<cache, cacheLock, now, loc, heldAtClear, entryPreClear,
                   outsideCache>>

\* time passes
Tick ==
    /\ now < StartTime + MaxTicks * TickStep
    /\ now' = now + TickStep
    /\ UNCHANGED <<cache, cacheLock, pc, op, useCache, src, loc, ownedTv, result,
                   errlog, heldAtClear, entryPreClear, outsideCache>>

NextCache ==
    \/ \E t \in Callers, s \in Sources, uc \in BOOLEAN : CallSample(t, s, uc)
    \/ \E t \in Callers : CallOwned(t)
    \/ \E t \in Callers : CallClear(t)
    \/ \E t \in Callers : Acquire(t)
    \/ \E t \in Callers : CheckBody(t)
    \/ \E t \in Callers : \E d \in Listings(src[t]) : FetchOk(t, d)
    \/ \E t \in Callers : FetchFail(t)
    \/ \E t \in Callers : StoreBody(t)
    \/ \E t \in Callers : ClearBody(t)
    \/ \E t \in Callers : Finish(t)
    \/ Tick

\* Three threads that all ask for the sample of one library, at one instant
NextStampede ==
    \/ \E t \in Threads, s \in Sources : CallSample(t, s, TRUE)
    \/ \E t \in Threads : Acquire(t)
    \/ \E t \in Threads : CheckBody(t)
    \/ \E t \in Threads : \E d \in Listings(src[t]) : FetchOk(t, d)
    \/ \E t \in Threads : FetchFail(t)
    \/ \E t \in Threads : StoreBody(t)
    \/ \E t \in Threads : Finish(t)

\* A library that grows while the process runs: the shorter listing is what
\* the source lists at StartTime, the longer one what it lists from then on
LibraryAt(s, t) ==
    CHOOSE d \in Listings(s) :
        \A e \in Listings(s) :
            IF t = StartTime THEN Len(d.list) <= Len(e.list)
            ELSE Len(d.list) >= Len(e.list)

\* Two threads that ask for samples through the cache while the libraries
\* grow; a fetch answers with the library as it is when it returns
NextGrowing ==
    \/ \E t \in Callers, s \in Sources : CallSample(t, s, TRUE)
    \/ \E t \in Callers : Acquire(t)
    \/ \E t \in Callers : CheckBody(t)
    \/ \E t \in Callers : FetchOk(t, LibraryAt(src[t], now))
    \/ \E t \in Callers : StoreBody(t)
    \/ \E t \in Callers : Finish(t)
    \/ Tick

\* The most entries the history list gets
MaxHistory == 1

InitHistory ==
    /\ historyLock = NoThread
    /\ history = 0

\* index() has its recommendations and reaches "with _history_lock"
CallIndex(t) ==
    /\ pc[t] = "idle"
    /\ history + Cardinality({u \in Threads : op[u] = "index"}) < MaxHistory
    /\ op' = [op EXCEPT ![t] = "index"]
    /\ pc' = [pc EXCEPT ![t] = "hist_acq"]
    /\ UNCHANGED <<cache, cacheLock, now, useCache, src, loc, ownedTv, result,
                   errlog, heldAtClear, entryPreClear, historyVars, outsideThreads>>

\* clear_history() is called
CallClearHistory(t) ==
    /\ pc[t] = "idle"
    /\ op' = [op EXCEPT ![t] = "clear_history"]
    /\ pc' = [pc EXCEPT ![t] = "hist_acq"]
    /\ UNCHANGED <<cache, cacheLock, now, useCache, src, loc, ownedTv, result,
                   errlog, heldAtClear, entryPreClear, historyVars, outsideThreads>>

\* with _history_lock: the thread enters the block
AcquireHistory(t) ==
    /\ pc[t] = "hist_acq"
    /\ historyLock = NoThread
    /\ historyLock' = t
    /\ pc' = [pc EXCEPT ![t] = "hist_cs"]
    /\ UNCHANGED <<cache, cacheLock, now, op, useCache, src, loc, ownedTv, result,
                   errlog, heldAtClear, entryPreClear, history, outsideThreads>>

\* the body of the with-block: history.insert(0, ...) or history.clear()
HistoryBody(t) ==
    /\ pc[t] = "hist_cs"
    /\ history' = IF op[t] = "index" THEN history + 1 ELSE 0
    /\ historyLock' = NoThread
    /\ result' = [result EXCEPT ![t] =
                     Returned([page |-> IF op[t] = "index" THEN "index"
                                        ELSE "history_page"])]
    /\ pc' = [pc EXCEPT ![t] = "done"]
    /\ UNCHANGED <<cache, cacheLock, now, op, useCache, src, loc, ownedTv, errlog,
                   heldAtClear, entryPreClear, outsideThreads>>

\* Two threads that ask for samples through the cache, clear it, and save
\* to and clear the history; a fetch may never return
NextLocks ==
    \/ \E t \in Callers, s \in Sources : CallSample(t, s, TRUE)
    \/ \E t \in Callers : CallClear(t)
    \/ \E t \in Callers : Acquire(t)
    \/ \E t \in Callers : CheckBody(t)
    \/ \E t \in Callers : FetchOk(t, LibraryAt(src[t], now))
    \/ \E t \in Callers : StoreBody(t)
    \/ \E t \in Callers : ClearBody(t)
    \/ \E t \in Callers : CallIndex(t)
    \/ \E t \in Callers : CallClearHistory(t)
    \/ \E t \in Callers : AcquireHistory(t)
    \/ \E t \in Callers : HistoryBody(t)
    \/ \E t \in Callers : Finish(t)

---------------------------------------------------------------------------
(* The candidate filter: get_recommendations from json.loads on, with       *)
(* is_talk_show and the sets of get_owned_title_sets                        *)

\* The longest list of recommendations the generator answers with
MaxBatch == 3

IsStr(v) == "str" \in DOMAIN v

\* pattern in text
Contains(text, pattern) ==
    \E i \in 0..(Len(text) - Len(pattern)) :
        SubSeq(text, i + 1, i + Len(pattern)) = pattern

\* talk_show_patterns
talk_show_patterns ==
    { <<"t", "o", "n", "i", "g", "h", "t", " ", "s", "h", "o", "w">>,
      <<"l", "a", "t", "e", " ", "n", "i", "g", "h", "t">>,
      <<"l", "a", "t", "e", " ", "s", "h", "o", "w">>,
      <<"j", "i", "m", "m", "y", " ", "k", "i", "m", "m", "e", "l">>,
      <<"j", "i", "m", "m", "y", " ", "f", "a", "l", "l", "o", "n">>,
      <<"c", "o", "n", "a", "n">>,
      <<"d", "a", "i", "l", "y", " ", "s", "h", "o", "w">>,
      <<"c", "o", "l", "b", "e", "r", "t">>,
      <<"s", "a", "t", "u", "r", "d", "a", "y", " ", "n", "i", "g", "h", "t", " ", "l", "i", "v", "e">>,
      <<"s", "n", "l">>,
      <<"l", "i", "v", "e", " ", "w", "i", "t", "h">>,
      <<"s", "h", "o", "w", " ", "w", "i", "t", "h">>,
      <<"g", "r", "a", "h", "a", "m", " ", "n", "o", "r", "t", "o", "n">>,
      <<"e", "l", "l", "e", "n">>,
      <<"o", "p", "r", "a", "h">>,
      <<"v", "i", "e", "w">>,
      <<"t", "a", "l", "k", " ", "s", "h", "o", "w">>,
      <<"l", "a", "t", "e", " ", "l", "a", "t", "e">>,
      <<"t", "o", "n", "i", "g", "h", "t", " ", "s", "t", "a", "r", "r", "i", "n", "g">> }

is_talk_showNever(title) == FALSE

\* False for a falsy title, else any(pattern in title.lower() ...)
is_talk_show(title) ==
    IF ~Truthy(title) THEN FALSE
    ELSE LET title_lower == Lower(title.str)
         IN \E pattern \in talk_show_patterns : Contains(title_lower, pattern)

\* (r.get("type") or "")
KindLabel(r) == IF Truthy(Get(r, "type")) THEN Get(r, "type") ELSE S(<<>>)

\* .lower() of a value that is not a str raises AttributeError
KindRaises(r) == ~IsStr(KindLabel(r))

ResolvedKindExact(r) == IF KindLabel(r) = S(Tv) THEN S(Tv) ELSE S(Movie)

\* "tv" if "tv" in t or "show" in t or "series" in t else "movie"
ResolvedKind(r) ==
    LET t == Lower(KindLabel(r).str)
    IN IF \/ Contains(t, <<"t", "v">>)
          \/ Contains(t, <<"s", "h", "o", "w">>)
          \/ Contains(t, <<"s", "e", "r", "i", "e", "s">>)
       THEN S(Tv)
       ELSE S(Movie)

\* r["type"] = ...
WithKind(r) ==
    D([k \in DOMAIN r.dict \cup {"type"} |->
         IF k = "type" THEN ResolvedKind(r) ELSE r.dict[k]])

\* title = r.get("title", "")
TitleOf(r) == GetOr(r, "title", S(<<>>))

\* normalize_title(title) calls title.lower(): AttributeError unless the
\* title is falsy or a str
TitleRaises(r) == Truthy(TitleOf(r)) /\ ~IsStr(TitleOf(r))

IsDuplicateAnyKind(r, title_n, tv, movies) == title_n \in tv \/ title_n \in movies

IsDuplicateWithYear(r, title_n, tv, movies) ==
    LET key == IF Truthy(Get(r, "year")) THEN title_n \o Format(Get(r, "year"))
               ELSE title_n
    IN \/ Get(r, "type") = S(Tv) /\ key \in tv
       \/ Get(r, "type") = S(Movie) /\ key \in movies

\* is_duplicate after the two tests against owned_tv and owned_movies
IsDuplicate(r, title_n, tv, movies) ==
    \/ Get(r, "type") = S(Tv) /\ title_n \in tv
    \/ Get(r, "type") = S(Movie) /\ title_n \in movies

\* one pass of the loop body: does r reach filtered.append(r)
Survives(r, tv, movies) ==
    LET title_n == normalize_title(TitleOf(r))
    IN /\ title_n # <<>>
       /\ ~is_talk_show(TitleOf(r))
       /\ ~IsDuplicate(r, title_n, tv, movies)

AppendedFirst(out, r) == <<r>> \o out

\* filtered.append(r)
Appended(out, r) == Append(out, r)

RECURSIVE FilterLoop(_, _, _, _, _)
\* for r in recs: ... from position i on, with what is filtered so far
FilterLoop(rs, i, tv, movies, out) ==
    IF i > Len(rs) THEN out
    ELSE FilterLoop(rs, i + 1, tv, movies,
                    IF Survives(rs[i], tv, movies) THEN Appended(out, rs[i])
                    ELSE out)

RECURSIVE KeptLoop(_, _, _, _, _)
\* the positions of recs the loop appends, in the order it appends them
KeptLoop(rs, i, tv, movies, out) ==
    IF i > Len(rs) THEN out
    ELSE KeptLoop(rs, i + 1, tv, movies,
                  IF Survives(rs[i], tv, movies) THEN Append(out, i) ELSE out)

\* A catalog record with an identifier and a rating
LookupHit ==
    L(<<D([imdbId |-> S(<<"t", "t", "1">>),
           ratings |-> D([imdb |-> D([value |-> I(8)])])])>>)

\* How the lookups of a batch of n end in the runs of the filter: every one
\* is answered, or the first one raises
LookupRuns(n) ==
    { [i \in 1..n |-> Answered(LookupHit)],
      [i \in 1..n |-> IF i = 1 THEN Raised ELSE Answered(LookupHit)] }

\* lookup_single_rec(r) when its catalog call, if it makes one, ends as o
lookup_single_rec(r, o) ==
    IF ~Truthy(Get(r, "title")) THEN WithoutTitle(r)
    ELSE IF o = Raised THEN OnLookupError(r)
    ELSE FromResponse(r, o.resp)

\* the catalog lookup_single_rec(r) asks: none without a title, else the
\* one its test of r["type"] selects
CatalogAsked(r) ==
    IF ~Truthy(Get(r, "title")) THEN "none" ELSE LookupCatalog(r)

\* Candidates whose title and kind are text, empty or absent
TextCandidates ==
    { D([title |-> S(<<"B", "r", "e", "a", "k", "i", "n", "g", " ", "B", "a", "d">>), type |-> S(<<"t", "v", " ", "s", "h", "o", "w">>)]),
      D([title |-> S(<<>>), type |-> S(Movie)]),
      D([title |-> S(<<"T", "o", "n", "i", "g", "h", "t", " ", "S", "h", "o", "w", " ", "S", "t", "a", "r", "r", "i", "n", "g", " ", "X">>), type |-> S(Tv)]),
      D([title |-> S(<<"T", "h", "e", " ", "M", "a", "t", "r", "i", "x">>), year |-> I(1999), type |-> S(Movie)]),
      D([title |-> S(<<"T", "h", "e", " ", "M", "a", "t", "r", "i", "x">>), year |-> I(2021), type |-> S(Movie)]),
      D([title |-> S(<<"T", "H", "E", " ", "M", "A", "T", "R", "I", "X", "!">>), type |-> S(<<"S", "e", "r", "i", "e", "s">>)]),
      D([title |-> S(<<"T", "h", "e", " ", "M", "a", "t", "r", "i", "x", " ", "R", "e", "l", "o", "a", "d", "e", "d">>), year |-> I(2003)]),
      D([title |-> None, type |-> S(<<>>)]) }

\* Candidates with a title or a kind that is not text
NonTextCandidates ==
    { D([title |-> I(1984), type |-> S(Movie)]),
      D([title |-> S(<<"D", "u", "n", "e">>), type |-> I(1)]) }

\* Candidates without a usable title, and two well-formed ones
MalformedCandidates ==
    NonTextCandidates \cup
    { D([type |-> S(Movie), year |-> I(2020)]),
      D([title |-> S(<<"B", "r", "e", "a", "k", "i", "n", "g", " ", "B", "a", "d">>), type |-> S(<<"t", "v", " ", "s", "h", "o", "w">>)]),
      D([title |-> S(<<"T", "h", "e", " ", "M", "a", "t", "r", "i", "x">>), year |-> I(1999), type |-> S(Movie)]) }

FilterLists == UNION {[1..n -> TextCandidates] : n \in 0..MaxBatch}

MalformedLists == UNION {[1..n -> MalformedCandidates] : n \in 0..MaxBatch}

\* The states of the two libraries get_owned_title_sets can see
OwnedLibraries ==
    { [series |-> L(<<>>), movies |-> L(<<>>)],
      [series |-> L(<<D([title |-> S(<<"T", "h", "e", " ", "M", "a", "t", "r", "i", "x">>), id |-> I(3)])>>),
       movies |-> L(<<>>)],
      [series |-> L(<<>>),
       movies |-> L(<<D([title |-> S(<<"T", "h", "e", " ", "M", "a", "t", "r", "i", "x">>), id |-> I(4)])>>)],
      [series |-> L(<<>>),
       movies |-> L(<<D([title |-> S(<<"T", "h", "e", " ", "M", "a", "t", "r", "i", "x", " ", "(", "1", "9", "9", "9", ")">>), id |-> I(5)]),
                      D([id |-> I(6)])>>)] }

InitFilter ==
    /\ gpc = "idle"
    /\ raw_recs = <<>>
    /\ grecs = <<>>
    /\ queried = <<>>
    /\ owned_tv = {}
    /\ owned_movies = {}
    /\ filtered = <<>>
    /\ kept = <<>>
    /\ raisedIn = "none"
    /\ goutput = None

\* data.get("recommendations", []) is one of lists; attach_imdb_ids returns,
\* the lookup of candidate i having ended as outs[i]
Recommend(lists) ==
    /\ gpc = "idle"
    /\ \E rs \in lists : \E outs \in LookupRuns(Len(rs)) :
          /\ raw_recs' = rs
          /\ grecs' = [i \in 1..Len(rs) |-> lookup_single_rec(rs[i], outs[i])]
          /\ queried' = [i \in 1..Len(rs) |-> CatalogAsked(rs[i])]
    /\ gpc' = "kinds"
    /\ UNCHANGED <<owned_tv, owned_movies, filtered, kept, raisedIn, goutput>>
    /\ UNCHANGED outsideFilter

\* the loop that rewrites r["type"], no label raising
ResolveKinds ==
    /\ gpc = "kinds"
    /\ \A i \in 1..Len(grecs) : ~KindRaises(grecs[i])
    /\ gpc' = "owned"
    /\ grecs' = [i \in 1..Len(grecs) |-> WithKind(grecs[i])]
    /\ UNCHANGED <<raw_recs, owned_tv, owned_movies, filtered, kept, raisedIn,
                   goutput>>
    /\ UNCHANGED <<queried, outsideFilter>>

\* the loop that rewrites r["type"] meets a label without .lower(): the
\* except-branch of get_recommendations returns []
ResolveKindsRaises ==
    /\ gpc = "kinds"
    /\ \E i \in 1..Len(grecs) : KindRaises(grecs[i])
    /\ gpc' = "returned"
    /\ raisedIn' = "kinds"
    /\ goutput' = L(<<>>)
    /\ UNCHANGED <<raw_recs, grecs, owned_tv, owned_movies, filtered, kept>>
    /\ UNCHANGED <<queried, outsideFilter>>

\* owned_tv, owned_movies = get_owned_title_sets(), the libraries being lib
GetOwned(lib) ==
    /\ gpc = "owned"
    /\ gpc' = "filter"
    /\ owned_tv' = OwnedSet(lib.series)
    /\ owned_movies' = OwnedSet(lib.movies)
    /\ UNCHANGED <<raw_recs, grecs, filtered, kept, raisedIn, goutput>>
    /\ UNCHANGED <<queried, outsideFilter>>

\* the filter loop runs to its end and filtered is returned
Filter ==
    /\ gpc = "filter"
    /\ \A i \in 1..Len(grecs) : ~TitleRaises(grecs[i])
    /\ gpc' = "returned"
    /\ filtered' = FilterLoop(grecs, 1, owned_tv, owned_movies, <<>>)
    /\ kept' = KeptLoop(grecs, 1, owned_tv, owned_movies, <<>>)
    /\ goutput' = L(filtered')
    /\ UNCHANGED <<raw_recs, grecs, owned_tv, owned_movies, raisedIn>>
    /\ UNCHANGED <<queried, outsideFilter>>

\* normalize_title raises inside the filter loop: the except-branch of
\* get_recommendations returns []
FilterRaises ==
    /\ gpc = "filter"
    /\ \E i \in 1..Len(grecs) : TitleRaises(grecs[i])
    /\ gpc' = "returned"
    /\ raisedIn' = "filter"
    /\ goutput' = L(<<>>)
    /\ UNCHANGED <<raw_recs, grecs, owned_tv, owned_movies, filtered, kept>>
    /\ UNCHANGED <<queried, outsideFilter>>

\* Batches of candidates whose title and kind are text, empty or absent
NextFilter ==
    \/ Recommend(FilterLists)
    \/ ResolveKinds
    \/ \E lib \in OwnedLibraries : GetOwned(lib)
    \/ Filter

\* Batches that may hold a candidate with a missing or non-text field
NextMalformed ==
    \/ Recommend(MalformedLists)
    \/ ResolveKinds
    \/ ResolveKindsRaises
    \/ \E lib \in OwnedLibraries : GetOwned(lib)
    \/ Filter
    \/ FilterRaises

---------------------------------------------------------------------------
(* normalize_title as a function of its argument *)

\* The longest title normalize_title is applied to
MaxTitleLen == 3

\* An upper-case letter, a lower-case letter, a digit, a space and a hyphen
TitleAlphabet == {"A", "b", "7", " ", "-"}

\* Every str of at most MaxTitleLen characters of TitleAlphabet, and None
Titles ==
    {None} \cup
    {S(chars) : chars \in UNION {[1..n -> TitleAlphabet] : n \in 0..MaxTitleLen}}

InitNormalize ==
    /\ title_arg = None
    /\ title_norm = S(<<>>)

\* normalize_title(title) is called and returns
Normalize(title) ==
    /\ title_arg' = title
    /\ title_norm' = S(normalize_title(title))
    /\ UNCHANGED outsideNormalize

NextNormalize == \E title \in Titles : Normalize(title)

---------------------------------------------------------------------------
(* The credit aggregator: tmdb_get_person_credits and the concurrent        *)
(* lookup_credit calls of specific_search                                   *)

\* The largest limit tmdb_get_person_credits is called with
MaxLimit == 2

\* The longest cast list the metadata source answers with
MaxCast == 4

\* The name fragments that drop a tv credit
credit_name_patterns ==
    { <<"t", "o", "n", "i", "g", "h", "t", " ", "s", "h", "o", "w">>,
      <<"l", "a", "t", "e", " ", "n", "i", "g", "h", "t">>,
      <<"l", "a", "t", "e", " ", "s", "h", "o", "w">>,
      <<"j", "i", "m", "m", "y", " ", "k", "i", "m", "m", "e", "l">>,
      <<"d", "a", "i", "l", "y", " ", "s", "h", "o", "w">>,
      <<"s", "h", "o", "w", " ", "w", "i", "t", "h">>,
      <<"l", "i", "v", "e", " ", "w", "i", "t", "h">>,
      <<"g", "r", "a", "h", "a", "m", " ", "n", "o", "r", "t", "o", "n">>,
      <<"r", "u", "n", "n", "i", "n", "g", " ", "m", "a", "n">>,
      <<"c", "o", "n", "a", "n">> }

KeepsCreditAnyKind(credit) ==
    /\ Truthy(Get(credit, "character"))
    /\ LET title == Lower(GetOr(credit, "name", GetOr(credit, "title", S(<<>>))).str)
       IN ~\E word \in credit_name_patterns : Contains(title, word)
    /\ GetOr(credit, "episode_count", I(0)).int >= 3

\* the tests a cast credit passes to reach filtered_credits.append(credit)
KeepsCredit(credit) ==
    /\ Truthy(Get(credit, "character"))
    /\ Get(credit, "media_type") = S(Tv) =>
          /\ LET title == Lower(GetOr(credit, "name", S(<<>>)).str)
             IN ~\E word \in credit_name_patterns : Contains(title, word)
          /\ GetOr(credit, "episode_count", I(0)).int >= 3

\* filtered_credits before it is sorted
filtered_credits(credits) == SelectSeq(credits, KeepsCredit)

\* key=lambda x: (x.get("popularity", 0), x.get("vote_count", 0))
RankKey(credit) ==
    <<GetOr(credit, "popularity", I(0)).int, GetOr(credit, "vote_count", I(0)).int>>

\* tuple comparison a > b
KeyGreater(a, b) == a[1] > b[1] \/ (a[1] = b[1] /\ a[2] > b[2])

RECURSIVE InsertDesc(_, _)
\* x, which came before every element of s, at its place in the sorted s
InsertDesc(x, s) ==
    IF s = <<>> THEN <<x>>
    ELSE IF KeyGreater(RankKey(Head(s)), RankKey(x))
    THEN <<Head(s)>> \o InsertDesc(x, Tail(s))
    ELSE <<x>> \o s

RECURSIVE SortedDesc(_)
\* sorted(s, key=..., reverse=True): descending, equal keys in their order
SortedDesc(s) ==
    IF s = <<>> THEN <<>> ELSE InsertDesc(Head(s), SortedDesc(Tail(s)))

RECURSIVE ToInt(_)
\* int(chars) for a str of digits
ToInt(chars) ==
    LET last == CHOOSE n \in 0..9 : Digits(n) = <<chars[Len(chars)]>>
    IN IF Len(chars) = 1 THEN last
       ELSE 10 * ToInt(SubSeq(chars, 1, Len(chars) - 1)) + last

\* year = date[:4] if date else None; int(year) if year and year.isdigit()
YearOf(date) ==
    IF ~Truthy(date) THEN None
    ELSE LET year == SubSeq(date.str, 1, Min(4, Len(date.str)))
         IN IF \A i \in 1..Len(year) : year[i] \in DigitChars
            THEN I(ToInt(year))
            ELSE None

\* the media types the conversion loop has a branch for
Convertible(credit) == Get(credit, "media_type") \in {S(Movie), S(Tv)}

\* the dict results.append builds from a credit
Converted(credit) ==
    IF Get(credit, "media_type") = S(Movie)
    THEN D([title |-> GetOr(credit, "title", S(<<>>)),
            year |-> YearOf(Get(credit, "release_date")),
            type |-> S(Movie)])
    ELSE D([title |-> GetOr(credit, "name", S(<<>>)),
            year |-> YearOf(Get(credit, "first_air_date")),
            type |-> S(Tv)])

RECURSIVE TakenNoBreak(_, _, _, _)
TakenNoBreak(ranked, i, limit, out) ==
    IF i > Min(Len(ranked), limit * 2) THEN out
    ELSE TakenNoBreak(ranked, i + 1, limit,
                      IF Convertible(ranked[i]) THEN Append(out, i) ELSE out)

RECURSIVE Taken(_, _, _, _)
\* for credit in filtered_credits[:limit * 2], from position i on: the
\* positions whose credit is appended to results, until len(results) >= limit
Taken(ranked, i, limit, out) ==
    IF i > Min(Len(ranked), limit * 2) THEN out
    ELSE LET results_ == IF Convertible(ranked[i]) THEN Append(out, i) ELSE out
         IN IF Len(results_) >= limit THEN results_
            ELSE Taken(ranked, i + 1, limit, results_)

\* tmdb_get_person_credits when the metadata source answers with cast
tmdb_get_person_credits(credits, limit) ==
    LET ranked == SortedDesc(filtered_credits(credits))
        taken == Taken(ranked, 1, limit, <<>>)
    IN [j \in 1..Len(taken) |-> Converted(ranked[taken[j]])]

\* The titles the two catalogs know
CatalogTitles == {<<"H", "e", "a", "t">>, <<"L", "o", "s", "t">>}

\* results of sonarr_get("/series/lookup") / radarr_get("/movie/lookup")
CatalogLookup(term) ==
    IF term.str \in CatalogTitles
    THEN L(<<D([title |-> term, year |-> I(2000), overview |-> S(<<"A", " ", "s", "t", "o", "r", "y">>),
                imdbId |-> S(<<"t", "t">> \o term.str),
                ratings |-> D([imdb |-> D([value |-> I(8)])])])>>)
    ELSE L(<<>>)

\* item.get("overview", "")[:200] + "..." if item.get("overview") else ""
Overview(item) ==
    IF Truthy(Get(item, "overview"))
    THEN LET text == Get(item, "overview").str
         IN S(SubSeq(text, 1, Min(200, Len(text))) \o <<".", ".", ".">>)
    ELSE S(<<>>)

\* the catalog lookup_credit asks, by the credit's type
CreditCatalog(credit) == IF Get(credit, "type") = S(Tv) THEN "sonarr" ELSE "radarr"

\* what lookup_credit returns once the catalog has answered with results
lookup_credit(credit, results_) ==
    IF Truthy(results_)
    THEN LET item == results_.list[1]
         IN D([title |-> Get(item, "title"), year |-> Get(item, "year"),
               type |-> Get(credit, "type"), overview |-> Overview(item),
               imdb_id |-> Get(item, "imdbId"),
               rating |-> extract_rating(Get(item, "ratings"))])
    ELSE None

\* The cast credits a filmography is drawn from, in the source's order
CreditPool ==
    << D([media_type |-> S(Tv), name |-> S(<<"L", "o", "s", "t">>), character |-> S(<<"J", "a", "c", "k">>),
          episode_count |-> I(5), popularity |-> I(7), vote_count |-> I(3),
          first_air_date |-> S(<<"2", "0", "0", "4", "-", "0", "9", "-", "2", "2">>)]),
       D([media_type |-> S(Movie), title |-> S(<<"H", "e", "a", "t">>), character |-> S(<<"N", "e", "i", "l">>),
          popularity |-> I(9), vote_count |-> I(5),
          release_date |-> S(<<"1", "9", "9", "5", "-", "1", "2", "-", "1", "5">>)]),
       D([media_type |-> S(Movie), title |-> S(<<"R", "o", "n", "i", "n">>), character |-> S(<<"S", "a", "m">>),
          popularity |-> I(9), vote_count |-> I(7), release_date |-> S(<<>>)]),
       D([media_type |-> S(<<"p", "e", "r", "s", "o", "n">>), character |-> S(<<"S", "e", "l", "f">>),
          popularity |-> I(10)]),
       D([media_type |-> S(Tv), name |-> S(<<"T", "h", "e", " ", "L", "a", "t", "e", " ", "S", "h", "o", "w">>),
          character |-> S(<<"S", "e", "l", "f">>), episode_count |-> I(9), popularity |-> I(8)]),
       D([media_type |-> S(Tv), name |-> S(<<"D", "a", "r", "k">>), character |-> S(<<"G", "u", "e", "s", "t">>),
          episode_count |-> I(1), popularity |-> I(8)]),
       D([media_type |-> S(Movie), title |-> S(<<"U", "p">>), character |-> S(<<>>),
          popularity |-> I(8)]),
       D([media_type |-> S(Movie), character |-> S(<<"E", "x", "t", "r", "a">>),
          popularity |-> I(6), release_date |-> S(<<"1", "9", "x", "x">>)]),
       D([media_type |-> S(Movie), title |-> S(<<"C", "o", "n", "a", "n">>), character |-> S(<<"C", "o", "n", "a", "n">>),
          popularity |-> I(5), release_date |-> S(<<"1", "9", "8", "2", "-", "0", "5", "-", "1", "4">>)]) >>

\* the credits of pool at the positions in at, in the pool's order
Pick(pool, at) ==
    LET upTo[i \in 0..Len(pool)] ==
            IF i = 0 THEN <<>>
            ELSE IF i \in at THEN Append(upTo[i - 1], pool[i])
            ELSE upTo[i - 1]
    IN upTo[Len(pool)]

\* The cast lists the metadata source can answer with
CastLists ==
    {Pick(CreditPool, at) :
        at \in {a \in SUBSET (1..Len(CreditPool)) : Cardinality(a) <= MaxCast}}

\* the lookup_credit tasks a worker is inside
CreditBusy == {i \in 1..Len(cfut) : cfut[i] = "running"}

InitCredits ==
    /\ cpc = "idle"
    /\ cast = <<>>
    /\ limit_arg = 1
    /\ tmdb_credits = <<>>
    /\ rank_of = <<>>
    /\ cfut = <<>>
    /\ coutcome = <<>>
    /\ cissued = <<>>
    /\ cresult = <<>>
    /\ search_results = <<>>
    /\ source_of = <<>>

\* specific_search reaches tmdb_get_person_credits(person_id, limit), the
\* source answers with one of casts, and every credit returned is submitted
SearchActor(casts) ==
    /\ cpc = "idle"
    /\ \E credits \in casts, limit \in 1..MaxLimit :
          /\ cast' = credits
          /\ limit_arg' = limit
          /\ tmdb_credits' = tmdb_get_person_credits(credits, limit)
          /\ rank_of' = Taken(SortedDesc(filtered_credits(credits)), 1, limit, <<>>)
    /\ cpc' = "collect"
    /\ cfut' = [i \in 1..Len(tmdb_credits') |-> "queued"]
    /\ coutcome' = [i \in 1..Len(tmdb_credits') |-> Pending]
    /\ cissued' = [i \in 1..Len(tmdb_credits') |-> None]
    /\ cresult' = [i \in 1..Len(tmdb_credits') |-> None]
    /\ search_results' = <<>>
    /\ source_of' = <<>>
    /\ UNCHANGED outsideCredits

\* a free worker takes the oldest queued task and runs lookup_credit up to
\* its catalog call; a credit without a title returns None at once
StartCredit(i) ==
    /\ cpc = "collect"
    /\ cfut[i] = "queued"
    /\ \A j \in 1..(i - 1) : cfut[j] # "queued"
    /\ Cardinality(CreditBusy) < max_workers
    /\ IF ~Truthy(Get(tmdb_credits[i], "title"))
       THEN /\ cfut' = [cfut EXCEPT ![i] = "done"]
            /\ coutcome' = [coutcome EXCEPT ![i] = Skipped]
            /\ UNCHANGED cissued
       ELSE /\ cfut' = [cfut EXCEPT ![i] = "running"]
            /\ cissued' = [cissued EXCEPT ![i] =
                              [catalog |-> CreditCatalog(tmdb_credits[i]),
                               term |-> Get(tmdb_credits[i], "title")]]
            /\ UNCHANGED coutcome
    /\ UNCHANGED <<cpc, cast, limit_arg, tmdb_credits, rank_of, cresult,
                   search_results, source_of>>
    /\ UNCHANGED outsideCredits

\* the catalog answers the lookup of credit i
CreditAnswers(i) ==
    /\ cfut[i] = "running"
    /\ cfut' = [cfut EXCEPT ![i] = "done"]
    /\ coutcome' = [coutcome EXCEPT ![i] = Answered(CatalogLookup(cissued[i].term))]
    /\ cresult' = [cresult EXCEPT ![i] =
                      lookup_credit(tmdb_credits[i], CatalogLookup(cissued[i].term))]
    /\ UNCHANGED <<cpc, cast, limit_arg, tmdb_credits, rank_of, cissued,
                   search_results, source_of>>
    /\ UNCHANGED outsideCredits

\* the catalog call of credit i raises (an error status, a request timeout):
\* lookup_credit prints and returns None
CreditRaises(i) ==
    /\ cfut[i] = "running"
    /\ cfut' = [cfut EXCEPT ![i] = "done"]
    /\ coutcome' = [coutcome EXCEPT ![i] = Raised]
    /\ UNCHANGED <<cpc, cast, limit_arg, tmdb_credits, rank_of, cissued, cresult,
                   search_results, source_of>>
    /\ UNCHANGED outsideCredits

\* as_completed yields the finished future of credit i; a truthy result is
\* appended to search_results
CollectCredit(i) ==
    /\ cpc = "collect"
    /\ cfut[i] = "done"
    /\ cfut' = [cfut EXCEPT ![i] = "yielded"]
    /\ IF Truthy(cresult[i])
       THEN /\ search_results' = Append(search_results, cresult[i])
            /\ source_of' = Append(source_of, i)
       ELSE UNCHANGED <<search_results, source_of>>
    /\ UNCHANGED <<cpc, cast, limit_arg, tmdb_credits, rank_of, coutcome, cissued,
                   cresult>>
    /\ UNCHANGED outsideCredits

\* as_completed is exhausted and the with-block has joined the workers
SearchDone ==
    /\ cpc = "collect"
    /\ \A i \in 1..Len(cfut) : cfut[i] = "yielded"
    /\ cpc' = "done"
    /\ UNCHANGED <<cast, limit_arg, tmdb_credits, rank_of, cfut, coutcome, cissued,
                   cresult, search_results, source_of>>
    /\ UNCHANGED outsideCredits

NextCredits ==
    \/ SearchActor(CastLists)
    \/ \E i \in 1..Len(cfut) : StartCredit(i)
    \/ \E i \in 1..Len(cfut) : CreditAnswers(i)
    \/ \E i \in 1..Len(cfut) : CreditRaises(i)
    \/ \E i \in 1..Len(cfut) : CollectCredit(i)
    \/ SearchDone

---------------------------------------------------------------------------
(* The worker pools under load: a batch that fills the pool of *)
(* attach_imdb_ids, alone and next to an actor search of specific_search *)

\* The most candidates of a batch that find every worker taken
MaxQueued == 1

\* A movie candidate with a title
TitledMovie ==
    CHOOSE r \in Candidates : Get(r, "type") = S(Movie) /\ Truthy(Get(r, "title"))

\* Batches of max_workers candidates or more, each needing a movie lookup
FullBatches ==
    {[i \in 1..(max_workers + q) |-> TitledMovie] : q \in 0..MaxQueued}

\* One call of attach_imdb_ids on a full batch whose lookups all answer
NextBatch ==
    \/ \E rs \in FullBatches : Submit(rs)
    \/ \E i \in 1..Len(fut) : StartLookup(i)
    \/ \E i \in 1..Len(fut) : LookupReturns(i, LookupHit)
    \/ \E i \in 1..Len(fut) : Collect(i)
    \/ Return

\* Filmographies made of movie credits the catalog can be asked about
MovieCasts ==
    {c \in CastLists :
        /\ c # <<>>
        /\ \A i \in 1..Len(c) :
              /\ Get(c[i], "media_type") = S(Movie)
              /\ Truthy(Get(c[i], "character"))
              /\ Truthy(Get(c[i], "title"))}

\* the lookups of the enrichment pool that are inside a call to catalog c
EnrichInFlight(c) == {i \in Busy : issued[i].catalog = c}

\* the lookups of the actor search's pool that are inside a call to catalog c
CreditInFlight(c) == {i \in CreditBusy : cissued[i].catalog = c}

\* Two requests served at once (the server handles each request on its own
\* thread): get_recommendations inside attach_imdb_ids on a full batch, and
\* specific_search inside its actor branch
NextRequests ==
    \/ \E rs \in FullBatches : Submit(rs)
    \/ \E i \in 1..Len(fut) : StartLookup(i)
    \/ \E i \in 1..Len(fut) : LookupReturns(i, LookupHit)
    \/ SearchActor(MovieCasts)
    \/ \E i \in 1..Len(cfut) : StartCredit(i)
    \/ \E i \in 1..Len(cfut) : CreditAnswers(i)

\* Candidates for a single lookup: the title is text, empty, None or
\* missing, the year is a number, None or missing, the kind is tv or movie
LookupCandidates ==
    { D([type |-> S(k)] @@ t @@ y) :
        k \in {Movie, Tv},
        t \in {<<>>, [title |-> S(<<"D", "u", "n", "e">>)], [title |-> S(<<>>)], [title |-> None]},
        y \in {<<>>, [year |-> I(2021)], [year |-> None]} }

\* attach_imdb_ids on one candidate, with every end its lookup can have
NextLookup ==
    \/ \E r \in LookupCandidates : Submit(<<r>>)
    \/ \E i \in 1..Len(fut) : StartLookup(i)
    \/ \E i \in 1..Len(fut), resp \in LookupResponses : LookupReturns(i, resp)
    \/ \E i \in 1..Len(fut) : LookupRaises(i)
    \/ \E i \in 1..Len(fut) : Collect(i)
    \/ Return

---------------------------------------------------------------------------
(* Specifications *)

Init ==
    /\ InitEnrich /\ InitCache /\ InitFilter /\ InitNormalize /\ InitCredits
    /\ InitHistory

Next == NextEnrich \/ NextCache \/ NextFilter \/ NextNormalize \/ NextCredits

Spec == Init /\ [][Next]_vars

\* The enrichment engine alone
SpecEnrich == Init /\ [][NextEnrich]_vars

\* The snapshot cache alone, two threads
SpecCache == Init /\ [][NextCache]_vars

\* The snapshot cache under three simultaneous sample requests
SpecStampede == Init /\ [][NextStampede]_vars

\* The snapshot cache in front of libraries that grow
SpecGrowing == Init /\ [][NextGrowing]_vars

\* The two locks: a thread inside a with-block leaves it, and a thread that
\* waits for the cache lock gets it when it is released again and again;
\* nothing makes a fetch return
SpecLocksFair ==
    /\ Init
    /\ [][NextLocks]_vars
    /\ \A t \in Callers :
          /\ SF_vars(Acquire(t))
          /\ WF_vars(CheckBody(t))
          /\ WF_vars(StoreBody(t))
          /\ WF_vars(ClearBody(t))

\* The candidate filter on batches whose titles and kinds are text or absent
SpecFilter == Init /\ [][NextFilter]_vars

\* The candidate filter on batches with missing or non-text fields
SpecMalformed == Init /\ [][NextMalformed]_vars

\* normalize_title on every short title
SpecNormalize == Init /\ [][NextNormalize]_vars

\* The credit aggregator alone
SpecCredits == Init /\ [][NextCredits]_vars

\* One full batch whose pool keeps taking queued tasks while a worker is
\* free, whose started lookups all finish, and whose caller keeps collecting
SpecBatchFair ==
    /\ Init
    /\ [][NextBatch]_vars
    /\ WF_vars(\E i \in 1..Len(fut) : StartLookup(i))
    /\ WF_vars(\E i \in 1..Len(fut) : LookupReturns(i, LookupHit))
    /\ WF_vars(\E i \in 1..Len(fut) : Collect(i))
    /\ WF_vars(Return)

\* lookup_single_rec on every shape of candidate
SpecLookup == Init /\ [][NextLookup]_vars

\* An enrich batch and an actor search in the same process
SpecRequests == Init /\ [][NextRequests]_vars

---------------------------------------------------------------------------
(* Claims about the enrichment engine, under SpecEnrich *)

\* C1: whatever the order in which the lookups complete, attach_imdb_ids
\* returns a list as long as its input in which position i is input
\* candidate i with every original field kept and imdb_id and rating added.
C1_OrderPreserved ==
    epc = "returned" =>
        /\ Len(output) = Len(recs)
        /\ \A i \in 1..Len(recs) :
              /\ IsDict(output[i])
              /\ DOMAIN output[i].dict = DOMAIN recs[i].dict \cup {"imdb_id", "rating"}
              /\ \A k \in DOMAIN recs[i].dict \ {"imdb_id", "rating"} :
                    output[i].dict[k] = recs[i].dict[k]

\* a batch of different candidates has returned although the second one
\* was collected before the first
C1_Witness ==
    /\ epc = "returned"
    /\ Len(recs) >= 2
    /\ recs[1] # recs[2]
    /\ collected[1] = 2

\* C2: with exactly one lookup of the batch that never completes, the call
\* can still go on until it has returned.
C2_ReturnsDespiteOneStall ==
    (/\ epc = "collect"
     /\ Cardinality({i \in 1..Len(recs) : outcome[i] = Stalled}) = 1)
        => ENABLED NextEnrich

\* the imdb_id a lookup with outcome o must leave on its candidate
C3_ExpectedId(o) ==
    IF o.kind = "answered" /\ Len(o.resp.list) > 0
    THEN Get(o.resp.list[1], "imdbId")
    ELSE None

\* C3: when one candidate's lookup raises, the call still returns, that
\* candidate is in the output with imdb_id and rating None, and every
\* sibling has run to its own outcome and carries what its own lookup gave.
C3_FailedLookupIsolated ==
    epc = "returned" =>
        \A i \in 1..Len(recs) :
            outcome[i] = Raised =>
                /\ IsDict(output[i])
                /\ output[i] = D([k \in DOMAIN recs[i].dict \cup {"imdb_id", "rating"} |->
                                    IF k \in {"imdb_id", "rating"} THEN None
                                    ELSE recs[i].dict[k]])
                /\ \A j \in 1..Len(recs) :
                      /\ outcome[j].kind \in {"skipped", "raised", "answered"}
                      /\ IsDict(output[j])
                      /\ Get(output[j], "imdb_id") = C3_ExpectedId(outcome[j])
                      /\ Get(output[j], "title") = Get(recs[j], "title")

\* a batch has returned in which one lookup raised and another found a record
C3_Witness ==
    /\ epc = "returned"
    /\ \E i, j \in 1..Len(recs) :
          /\ outcome[i] = Raised
          /\ outcome[j].kind = "answered"
          /\ ~IsNone(Get(output[j], "imdb_id"))

---------------------------------------------------------------------------
(* Claims about the snapshot cache, under SpecCache and SpecStampede *)

\* thread t leaves the body of its cache check in this step
CheckStep(t) == pc[t] = "check_cs" /\ pc'[t] # "check_cs"

\* thread t leaves the body of its cache store in this step
StoreStep(t) == pc[t] = "store_cs" /\ pc'[t] # "store_cs"

\* the listing fetch of thread t fails in this step
FailStep(t) == pc[t] = "fetch" /\ src[t] \in errlog'[t]

\* this step hands thread t the listing data for its current source
ServedNext(t, data) ==
    IF IsSample(op[t])
    THEN pc'[t] = "done" /\ result'[t] = Returned(Sample(src[t], data))
    ELSE IF src[t] = "sonarr"
    THEN ownedTv'[t] = OwnedSet(data)
    ELSE /\ pc'[t] = "done"
         /\ result'[t] = Returned(OwnedPair(ownedTv[t], OwnedSet(data)))

\* this step hands thread t an empty result for its current source
ServedEmptyNext(t) ==
    IF IsSample(op[t])
    THEN pc'[t] = "done" /\ result'[t] = Returned(L(<<>>))
    ELSE IF src[t] = "sonarr"
    THEN ownedTv'[t] = {}
    ELSE pc'[t] = "done" /\ result'[t] = Returned(OwnedPair(ownedTv[t], {}))

\* thread t has a cache refresh of source s in flight
InRefresh(t, s) ==
    useCache[t] /\ src[t] = s /\ pc[t] \in {"fetch", "store_acq", "store_cs"}

\* C4: a cache access that finds a snapshot younger than the TTL is served
\* that snapshot and fetches nothing; one that finds the snapshot aged TTL
\* or more (or none) issues one listing fetch, and what the fetch returned
\* replaces the entry, stamped with the time of the store.
C4_CacheExpiry ==
    [][\A t \in Threads :
          /\ CheckStep(t) =>
                IF (~IsNone(cache[src[t]].data))
                   /\ now - cache[src[t]].timestamp < CACHE_TTL_SECONDS
                THEN /\ pc'[t] \notin {"fetch", "store_acq", "store_cs"}
                     /\ ServedNext(t, cache[src[t]].data)
                     /\ cache' = cache
                ELSE pc'[t] = "fetch" /\ src'[t] = src[t]
          /\ (pc[t] = "fetch" /\ useCache[t] /\ pc'[t] # "fetch") =>
                \/ pc'[t] = "store_acq" /\ loc'[t] \in Listings(src[t])
                \/ FailStep(t)
          /\ StoreStep(t) =>
                /\ cache'[src[t]] = [data |-> loc[t], timestamp |-> now]
                /\ pc'[t] = "done" \/ (pc'[t] = "check_acq" /\ src'[t] # src[t])
      ]_vars

\* a thread is about to replace a snapshot that has reached the TTL
C4_Witness ==
    \E t \in Threads :
        /\ pc[t] = "store_cs"
        /\ ~IsNone(cache[src[t]].data)
        /\ now - cache[src[t]].timestamp >= CACHE_TTL_SECONDS

\* C5 as claimed: no source ever has two refreshes in flight.
C5_AtMostOneRefreshInFlight ==
    \A s \in Sources : Cardinality({t \in Threads : InRefresh(t, s)}) <= 1

\* C5 as amended: the cache lock serializes the check, the store and the
\* clear, and is not held during the listing fetch; refreshes of one
\* source by different threads may overlap.
C5_OnlyCheckAndStoreSerialized ==
    /\ Cardinality({t \in Threads : pc[t] \in {"check_cs", "store_cs", "clear_cs"}}) <= 1
    /\ \A t \in Threads :
          /\ pc[t] \in {"check_cs", "store_cs", "clear_cs"} <=> cacheLock = t
          /\ pc[t] = "fetch" => cacheLock # t

\* two threads are fetching the listing of the same source at once
C5_Witness ==
    \E s \in Sources :
        Cardinality({t \in Threads : InRefresh(t, s) /\ pc[t] = "fetch"}) >= 2

\* C6: while a source's entry is missing or expired, at most two threads
\* have issued a listing fetch of that source to refresh it.
C6_AtMostTwoFetches ==
    \A s \in Sources :
        (IsNone(cache[s].data) \/ now - cache[s].timestamp >= CACHE_TTL_SECONDS)
            => Cardinality({t \in Threads : InRefresh(t, s)}) <= 2

\* C7: an access whose listing fetch failed returns an empty sample list,
\* or an empty owned set for the failing source, and never an exception.
C7_FetchFailureGivesEmpty ==
    \A t \in Threads :
        pc[t] = "done" =>
            /\ result[t] # Exception
            /\ (IsSample(op[t]) /\ errlog[t] # {}) => result[t] = Returned(L(<<>>))
            /\ (op[t] = "get_owned_title_sets" /\ "sonarr" \in errlog[t])
                  => result[t].value.owned_tv = {}
            /\ (op[t] = "get_owned_title_sets" /\ "radarr" \in errlog[t])
                  => result[t].value.owned_movies = {}

\* a sample call has returned after its fetch failed, and so has a
\* get_owned_title_sets call whose series fetch failed but not its movie one
C7_Witness ==
    \E t, u \in Threads :
        /\ pc[t] = "done" /\ IsSample(op[t]) /\ errlog[t] # {}
        /\ pc[u] = "done" /\ op[u] = "get_owned_title_sets"
        /\ errlog[u] = {"sonarr"}
        /\ result[u].value.owned_movies # {}

\* C8 as claimed: when the refresh fetch fails and a snapshot is stored for
\* the source, the access is served that snapshot; it is empty only when
\* there is none.
C8_StaleServedOnFailure ==
    [][\A t \in Threads :
          (FailStep(t) /\ useCache[t]) =>
              IF ~IsNone(cache[src[t]].data)
              THEN ServedNext(t, cache[src[t]].data)
              ELSE ServedEmptyNext(t)
      ]_vars

\* C8 as amended: when the refresh fetch fails, the access returns an empty
\* result even though a snapshot is stored for the source; the snapshot
\* stays in the cache as it was and is not served.
C8_EmptyOnFailureDespiteSnapshot ==
    [][\A t \in Threads :
          (FailStep(t) /\ useCache[t] /\ ~IsNone(cache[src[t]].data)) =>
              ServedEmptyNext(t) /\ cache' = cache
      ]_vars

\* a sample call has returned empty after a failed refresh while the
\* expired snapshot of its source is still in the cache
C8_Witness ==
    \E t \in Threads :
        /\ pc[t] = "done" /\ IsSample(op[t]) /\ useCache[t]
        /\ src[t] \in errlog[t]
        /\ result[t] = Returned(L(<<>>))
        /\ ~IsNone(cache[src[t]].data)
        /\ now - cache[src[t]].timestamp >= CACHE_TTL_SECONDS

\* C9: an entry changes only as a whole: clear_cache writes (None, 0), a
\* store writes the fetched listing together with the time of the store,
\* and a failed fetch changes no entry.
C9_EntryWrittenWhole ==
    [][/\ \A s \in Sources :
             cache'[s] # cache[s] =>
                 \/ /\ \E t \in Threads : pc[t] = "clear_cs" /\ pc'[t] # "clear_cs"
                    /\ cache'[s] = [data |-> None, timestamp |-> 0]
                 \/ \E t \in Threads :
                       /\ StoreStep(t) /\ src[t] = s
                       /\ ~IsNone(loc[t])
                       /\ cache'[s] = [data |-> loc[t], timestamp |-> now]
       /\ \A t \in Threads : FailStep(t) => cache' = cache
      ]_vars

\* an entry that was replaced after the start is still whole while a
\* refresh of its source has failed
C9_Witness ==
    \E t \in Threads, s \in Sources :
        /\ pc[t] = "done" /\ s \in errlog[t]
        /\ ~IsNone(cache[s].data)
        /\ cache[s].timestamp > StartTime

\* C10: a cache check never serves an entry whose data was fetched before
\* the last clear_cache.
C10_NoDataFromBeforeClear ==
    [][\A t \in Threads :
          (CheckStep(t) /\ pc'[t] # "fetch") => ~entryPreClear[src[t]]
      ]_vars

---------------------------------------------------------------------------
(* Claims about the candidate filter, under SpecFilter: the batches hold   *)
(* candidates whose title and kind are text, empty or absent                *)

\* The raw kind label of a candidate, lowercased; "" when it has none
C11_Label(r) ==
    IF "type" \in DOMAIN r.dict /\ IsStr(r.dict.type) THEN Lower(r.dict.type.str)
    ELSE <<>>

\* C11: once the kinds are resolved, every candidate's kind is tv or movie,
\* and it is tv exactly when its raw label, lowercased, contains "tv",
\* "show" or "series"; a missing or empty label gives movie.
C11_KindResolved ==
    gpc \in {"owned", "filter", "returned"} =>
        \A i \in 1..Len(grecs) :
            /\ Get(grecs[i], "type") \in {S(Tv), S(Movie)}
            /\ Get(grecs[i], "type") = S(Tv) <=>
                  \E marker \in {<<"t", "v">>, <<"s", "h", "o", "w">>, <<"s", "e", "r", "i", "e", "s">>} :
                      Contains(C11_Label(raw_recs[i]), marker)

\* a label that only contains a marker became tv, an upper-case one too, and
\* a candidate without a label became movie
C11_Witness ==
    /\ gpc = "owned"
    /\ \E i \in 1..Len(grecs) :
          /\ Get(raw_recs[i], "type") = S(<<"t", "v", " ", "s", "h", "o", "w">>)
          /\ Get(grecs[i], "type") = S(Tv)
    /\ \E i \in 1..Len(grecs) :
          /\ "type" \notin DOMAIN raw_recs[i].dict
          /\ Get(grecs[i], "type") = S(Movie)
    /\ \E i \in 1..Len(grecs) :
          /\ Get(raw_recs[i], "type") = S(<<"S", "e", "r", "i", "e", "s">>)
          /\ Get(grecs[i], "type") = S(Tv)

---------------------------------------------------------------------------
(* Claims about normalize_title, under SpecNormalize *)

\* C12: normalize_title applied to its own result returns that result, and
\* the result holds only lower-case letters and digits.
C12_NormalizeIdempotent ==
    /\ normalize_title(title_norm) = title_norm.str
    /\ \A i \in 1..Len(title_norm.str) :
          title_norm.str[i] \in LowerLetters \cup DigitChars

\* a title with an upper-case letter and a hyphen was normalized
C12_Witness ==
    /\ title_arg = S(<<"A", "-", "7">>)
    /\ title_norm = S(<<"a", "7">>)

---------------------------------------------------------------------------
(* Claims about the candidate filter, continued *)

Range(f) == {f[i] : i \in DOMAIN f}

\* the candidate at position i reached the ownership test
C13_ReachedDedup(i) ==
    /\ normalize_title(TitleOf(grecs[i])) # <<>>
    /\ ~is_talk_show(TitleOf(grecs[i]))

\* the owned set of the candidate's own resolved kind
C13_OwnedForKind(r) == IF Get(r, "type") = S(Tv) THEN owned_tv ELSE owned_movies

\* C13: a candidate that reaches the ownership test is dropped if and only
\* if its normalized title is an element of the owned set of its own kind.
C13_DroppedIffOwned ==
    gpc = "returned" =>
        \A i \in 1..Len(grecs) :
            C13_ReachedDedup(i) =>
                (i \notin Range(kept) <=>
                    normalize_title(TitleOf(grecs[i])) \in C13_OwnedForKind(grecs[i]))

\* with "thematrix" owned as a series only: the series "THE MATRIX!" was
\* dropped, "The Matrix Reloaded" and the movie "The Matrix" were retained
C13_Witness ==
    /\ gpc = "returned"
    /\ owned_tv = {<<"t", "h", "e", "m", "a", "t", "r", "i", "x">>}
    /\ owned_movies = {}
    /\ \E i \in 1..Len(grecs) :
          /\ TitleOf(grecs[i]) = S(<<"T", "H", "E", " ", "M", "A", "T", "R", "I", "X", "!">>)
          /\ Get(grecs[i], "type") = S(Tv)
          /\ i \notin Range(kept)
    /\ \E i \in Range(kept) : TitleOf(grecs[i]) = S(<<"T", "h", "e", " ", "M", "a", "t", "r", "i", "x", " ", "R", "e", "l", "o", "a", "d", "e", "d">>)
    /\ \E i \in Range(kept) :
          /\ TitleOf(grecs[i]) = S(<<"T", "h", "e", " ", "M", "a", "t", "r", "i", "x">>)
          /\ Get(grecs[i], "type") = S(Movie)

\* the movie candidates titled "The Matrix" of the given year
C14_Matrix(year) ==
    {i \in 1..Len(grecs) :
        /\ TitleOf(grecs[i]) = S(<<"T", "h", "e", " ", "M", "a", "t", "r", "i", "x">>)
        /\ Get(grecs[i], "type") = S(Movie)
        /\ Get(grecs[i], "year") = I(year)}

\* C14 as stated: with "thematrix1999" in the owned movie set, the movie
\* "The Matrix" of 1999 is dropped and the one of 2021 is retained.
C14_DroppedByYear ==
    (gpc = "returned" /\ <<"t", "h", "e", "m", "a", "t", "r", "i", "x", "1", "9", "9", "9">> \in owned_movies) =>
        /\ \A i \in C14_Matrix(1999) : i \notin Range(kept)
        /\ \A i \in C14_Matrix(2021) : i \in Range(kept)

\* C14 amended: with "thematrix1999" but not "thematrix" in the owned movie
\* set, the movie "The Matrix" is retained whatever its year, 1999 or 2021.
C14_RetainedWhateverYear ==
    (/\ gpc = "returned"
     /\ <<"t", "h", "e", "m", "a", "t", "r", "i", "x", "1", "9", "9", "9">> \in owned_movies
     /\ <<"t", "h", "e", "m", "a", "t", "r", "i", "x">> \notin owned_movies) =>
        \A i \in C14_Matrix(1999) \cup C14_Matrix(2021) : i \in Range(kept)

\* both candidates were in one batch filtered against that owned set
C14_Witness ==
    /\ gpc = "returned"
    /\ owned_movies = {<<"t", "h", "e", "m", "a", "t", "r", "i", "x", "1", "9", "9", "9">>}
    /\ C14_Matrix(1999) # {}
    /\ C14_Matrix(2021) # {}
    /\ C14_Matrix(1999) \cup C14_Matrix(2021) \subseteq Range(kept)

\* the three tests of the filter on one candidate, from their definitions
C15_Keeps(r) ==
    /\ \E i \in 1..Len(TitleOf(r).str) :
          TitleOf(r).str[i] \in UpperLetters \cup LowerLetters \cup DigitChars
    /\ \A marker \in talk_show_patterns :
          ~Contains(Lower(TitleOf(r).str), marker)
    /\ normalize_title(TitleOf(r)) \notin C13_OwnedForKind(r)

\* C15: the value returned holds exactly the candidates whose normalized
\* title is not empty, whose lowercased title contains no talk-show marker
\* and whose normalized title is not owned for their kind.
C15_FilterExact ==
    gpc = "returned" =>
        goutput = L(SelectSeq(grecs, LAMBDA r : IsStr(TitleOf(r)) /\ C15_Keeps(r)))

\* the batch Breaking Bad / tv show, "" / movie, Tonight Show Starring X / tv
\* against empty owned sets gave only Breaking Bad, as a series
C15_Witness ==
    /\ gpc = "returned"
    /\ Len(raw_recs) = 3
    /\ raw_recs[1] = D([title |-> S(<<"B", "r", "e", "a", "k", "i", "n", "g", " ", "B", "a", "d">>), type |-> S(<<"t", "v", " ", "s", "h", "o", "w">>)])
    /\ raw_recs[2] = D([title |-> S(<<>>), type |-> S(Movie)])
    /\ raw_recs[3] = D([title |-> S(<<"T", "o", "n", "i", "g", "h", "t", " ", "S", "h", "o", "w", " ", "S", "t", "a", "r", "r", "i", "n", "g", " ", "X">>), type |-> S(Tv)])
    /\ owned_tv = {}
    /\ owned_movies = {}
    /\ Len(goutput.list) = 1
    /\ Get(goutput.list[1], "title") = S(<<"B", "r", "e", "a", "k", "i", "n", "g", " ", "B", "a", "d">>)
    /\ Get(goutput.list[1], "type") = S(Tv)

\* C16: the value returned is a subsequence of the enriched list: its
\* elements are elements of that list at increasing positions, each with the
\* title the generator gave it.
C16_Subsequence ==
    gpc = "returned" =>
        \E at \in [1..Len(goutput.list) -> 1..Len(grecs)] :
            /\ \A j, k \in 1..Len(goutput.list) : j < k => at[j] < at[k]
            /\ \A j \in 1..Len(goutput.list) :
                  /\ goutput.list[j] = grecs[at[j]]
                  /\ Get(goutput.list[j], "title") = Get(raw_recs[at[j]], "title")

\* two different candidates survived around one that was dropped
C16_Witness ==
    /\ gpc = "returned"
    /\ kept = <<1, 3>>
    /\ Len(goutput.list) = 2
    /\ goutput.list[1] # goutput.list[2]

---------------------------------------------------------------------------
(* Claims about batches with a malformed candidate, under SpecMalformed *)

\* a candidate without a title, or whose title or kind is not text
C17_Malformed(r) ==
    \/ "title" \notin DOMAIN r.dict
    \/ ~IsStr(r.dict.title)
    \/ "type" \in DOMAIN r.dict /\ ~IsStr(r.dict.type)

\* what the filter gives for the other candidates of the batch
C17_WithoutMalformed(tv, movies) ==
    LET others == SelectSeq(grecs, LAMBDA r : ~C17_Malformed(r))
    IN FilterLoop([i \in 1..Len(others) |-> WithKind(others[i])], 1, tv, movies, <<>>)

\* C17: when exactly one candidate of a batch is malformed, the value
\* returned is what the filter gives for the batch without that candidate,
\* against the owned sets of the library in use.
C17_OnlyMalformedDropped ==
    (/\ gpc = "returned"
     /\ Cardinality({i \in 1..Len(raw_recs) : C17_Malformed(raw_recs[i])}) = 1) =>
        \E lib \in OwnedLibraries :
            /\ raisedIn # "kinds" =>
                  /\ owned_tv = OwnedSet(lib.series)
                  /\ owned_movies = OwnedSet(lib.movies)
            /\ goutput = L(C17_WithoutMalformed(OwnedSet(lib.series),
                                                OwnedSet(lib.movies)))

---------------------------------------------------------------------------
(* Claims about the credit aggregator, under SpecCredits *)

\* the lookup of credit i gave no record: it was not made, it raised, or the
\* catalog answered with an empty list
C18_Unresolved(i) ==
    \/ coutcome[i].kind \in {"skipped", "raised"}
    \/ coutcome[i].kind = "answered" /\ ~Truthy(coutcome[i].resp)

\* C18: the aggregation never holds more than limit records, every record
\* comes from a lookup the catalog answered with at least one record, and a
\* credit whose lookup gave no record adds nothing.
C18_AtMostLimitResolved ==
    /\ Len(tmdb_credits) <= limit_arg
    /\ Len(search_results) <= limit_arg
    /\ Len(source_of) = Len(search_results)
    /\ \A j \in 1..Len(source_of) :
          /\ coutcome[source_of[j]].kind = "answered"
          /\ Truthy(coutcome[source_of[j]].resp)
          /\ search_results[j] =
                lookup_credit(tmdb_credits[source_of[j]], coutcome[source_of[j]].resp)
    /\ \A i \in 1..Len(cfut) :
          (cfut[i] = "yielded" /\ C18_Unresolved(i)) => i \notin Range(source_of)

\* more credits passed the filter than the limit, limit of them were looked
\* up, one lookup raised and another gave a record
C18_Witness ==
    /\ cpc = "done"
    /\ Len(filtered_credits(cast)) > limit_arg
    /\ Len(tmdb_credits) = limit_arg
    /\ \E i \in 1..Len(cfut) : coutcome[i] = Raised
    /\ Len(search_results) = 1

\* the credit at position k of the ranking resolves: the catalog of its kind
\* knows its title and, if it was looked up, the call did not raise
C19_Resolves(ranked, k) ==
    /\ Convertible(ranked[k])
    /\ Get(Converted(ranked[k]), "title").str \in CatalogTitles
    /\ \A i \in 1..Len(rank_of) : rank_of[i] = k => coutcome[i] # Raised

\* C19: whenever at least limit of the top 2 x limit ranked credits resolve,
\* the result holds exactly limit records.
C19_LimitReachedDespiteMisses ==
    cpc = "done" =>
        LET ranked == SortedDesc(filtered_credits(cast))
            top == 1..Min(Len(ranked), 2 * limit_arg)
        IN Cardinality({k \in top : C19_Resolves(ranked, k)}) >= limit_arg =>
              Len(search_results) = limit_arg

\* C20: the records of the result are in the ranking order of the credits
\* they were resolved from.
C20_RankingOrder ==
    cpc = "done" =>
        \A j, k \in 1..Len(source_of) :
            j < k => rank_of[source_of[j]] < rank_of[source_of[k]]

---------------------------------------------------------------------------
(* Claims about the worker pools, under SpecRequests and SpecBatchFair *)

\* C21: at any moment the catalog lookups in flight against one lookup
\* service, summed over the enrich batch and the actor search running in the
\* process, are at most the pool width of 5.
C21_InFlightWithinPoolWidth ==
    \A c \in Sources :
        Cardinality(EnrichInFlight(c)) + Cardinality(CreditInFlight(c)) <= max_workers

\* C22: within one enrich batch at most 5 lookups are executing at any
\* moment, a candidate that finds no free worker waits, and once the batch
\* is submitted every one of its candidates is eventually executed, given
\* that each started lookup finishes.
C22_BatchBoundedAndServed ==
    /\ [](Cardinality(Busy) <= max_workers)
    /\ [][\A i \in 1..Len(fut) :
            (fut[i] = "queued" /\ Cardinality(Busy) = max_workers)
                => fut'[i] = "queued"]_vars
    /\ (epc = "collect")
          ~> (\A i \in 1..Len(recs) :
                 fut[i] \in {"done", "yielded"} /\ ~IsNone(futResult[i]))

\* a batch of more than 5: five lookups run and the sixth candidate waits
C22_Witness ==
    /\ Len(recs) > max_workers
    /\ Cardinality(Busy) = max_workers
    /\ \E i \in 1..Len(fut) : fut[i] = "queued"

---------------------------------------------------------------------------
(* Claims about lookup_single_rec, under SpecLookup *)

C23_HasTitle(r) == IsStr(Get(r, "title")) /\ Get(r, "title").str # <<>>

C23_Term(r) ==
    IF "int" \in DOMAIN Get(r, "year")
    THEN S(Get(r, "title").str \o <<" ", "(">> \o Digits(Get(r, "year").int) \o <<")">>)
    ELSE Get(r, "title")

C23_Unset(r, v) ==
    /\ Get(v, "imdb_id") = None
    /\ Get(v, "rating") = None
    /\ \A k \in DOMAIN r.dict : Get(v, k) = Get(r, k)

\* C23: a candidate whose title is missing or empty causes no catalog
\* lookup and comes back with imdb_id and rating None; a candidate with a
\* title is looked up under "title (year)" when it has a year and under the
\* bare title otherwise, and a lookup that answers with no record leaves
\* imdb_id and rating None.
C23_LookupOfOneCandidate ==
    \A i \in 1..Len(recs) :
        LET r == recs[i]
            finished == fut[i] \in {"done", "yielded"}
        IN /\ ~C23_HasTitle(r) =>
                /\ issued[i] = None
                /\ fut[i] # "running"
                /\ finished => C23_Unset(r, futResult[i])
           /\ (C23_HasTitle(r) /\ fut[i] # "queued") =>
                /\ issued[i] # None
                /\ issued[i].term = C23_Term(r)
           /\ (finished /\ outcome[i] = Answered(L(<<>>))) =>
                C23_Unset(r, futResult[i])
           /\ epc = "returned" => output[i] = futResult[i]

\* a candidate with a title and a year was looked up under "Dune (2021)",
\* the catalog answered with no record, and it came back unset
C23_Witness ==
    /\ epc = "returned"
    /\ Len(recs) = 1
    /\ C23_HasTitle(recs[1])
    /\ issued[1].term = S(<<"D", "u", "n", "e", " ", "(", "2", "0", "2", "1", ")">>)
    /\ outcome[1] = Answered(L(<<>>))
    /\ C23_Unset(recs[1], output[1])

---------------------------------------------------------------------------
(* Claims about the credit filter, under SpecCredits *)

C24_Named(credit) ==
    IsStr(Get(credit, "character")) /\ Get(credit, "character").str # <<>>

C24_Denied(credit) ==
    /\ "name" \in DOMAIN credit.dict
    /\ \E word \in credit_name_patterns : Contains(Lower(credit.dict.name.str), word)

C24_Episodes(credit) ==
    IF "episode_count" \in DOMAIN credit.dict THEN credit.dict.episode_count.int ELSE 0

C24_Keeps(credit) ==
    /\ C24_Named(credit)
    /\ Get(credit, "media_type") = S(Tv) =>
          ~C24_Denied(credit) /\ C24_Episodes(credit) >= 3

---------------------------------------------------------------------------
(* Claims about the year and the kind of a candidate, under SpecFilter *)

\* the candidates a and b have the same fields but for the year
C25_DifferOnlyInYear(a, b) ==
    /\ Get(a, "year") # Get(b, "year")
    /\ \A k \in (DOMAIN a.dict \cup DOMAIN b.dict) \ {"year"} : Get(a, k) = Get(b, k)

\* C25: two candidates of one batch with the same title and the same kind
\* label that differ only in year are both dropped or both retained by the
\* filter, whatever the owned sets are.
C25_YearIndependent ==
    (gpc = "returned" /\ raisedIn = "none") =>
        \A i, j \in 1..Len(raw_recs) :
            C25_DifferOnlyInYear(raw_recs[i], raw_recs[j])
                => (i \in Range(kept) <=> j \in Range(kept))

\* "The Matrix" of 1999 and of 2021 were filtered against a library that
\* owns a movie of that title: both are dropped
C25_Witness ==
    /\ gpc = "returned"
    /\ raisedIn = "none"
    /\ <<"t", "h", "e", "m", "a", "t", "r", "i", "x">> \in owned_movies
    /\ \E i, j \in 1..Len(raw_recs) :
          /\ C25_DifferOnlyInYear(raw_recs[i], raw_recs[j])
          /\ Get(raw_recs[i], "year") = I(1999)
          /\ Get(raw_recs[j], "year") = I(2021)
          /\ i \notin Range(kept)
          /\ j \notin Range(kept)

\* C26: for every candidate of the value returned, the catalog its lookup
\* asked is the one of its resolved kind: the series catalog for a
\* candidate returned as tv, the movie catalog for one returned as movie.
C26_CatalogMatchesKind ==
    (gpc = "returned" /\ raisedIn = "none") =>
        \A k \in 1..Len(kept) :
            queried[kept[k]] =
                (IF Get(filtered[k], "type") = S(Tv) THEN "sonarr" ELSE "radarr")

---------------------------------------------------------------------------
(* Claims about the order of snapshots, under SpecGrowing *)

\* C27: the listing held in a source's cache entry is never replaced by a
\* listing fetched earlier than it: an entry that holds what the library
\* listed after it grew never goes back to what it listed at StartTime.
C27_NeverReplacedByEarlierListing ==
    [][\A s \in Sources :
          cache[s].data = LibraryAt(s, StartTime + TickStep)
              => cache'[s].data # LibraryAt(s, StartTime)]_vars

---------------------------------------------------------------------------
(* Claims about get_owned_title_sets and the cache lock, under SpecCache *)

\* the owned sets a listing of the source can give
C28_SetsOf(s) == {OwnedSet(d) : d \in Listings(s)}

\* C28: get_owned_title_sets always returns a pair of sets and never
\* raises; the owned set of a source whose fetch failed is empty, and the
\* owned set of the other source is built from that source's snapshot
\* whether or not the first one failed.
C28_SourcesFailIndependently ==
    \A t \in Threads :
        (pc[t] = "done" /\ op[t] = "get_owned_title_sets") =>
            /\ result[t] # Exception
            /\ DOMAIN result[t] = {"value"}
            /\ DOMAIN result[t].value = {"owned_tv", "owned_movies"}
            /\ result[t].value.owned_tv \in
                  (IF "sonarr" \in errlog[t] THEN {{}} ELSE C28_SetsOf("sonarr"))
            /\ result[t].value.owned_movies \in
                  (IF "radarr" \in errlog[t] THEN {{}} ELSE C28_SetsOf("radarr"))

\* get_owned_title_sets has returned after its movie fetch failed, with the
\* owned series of the library and no owned movie
C28_Witness ==
    \E t \in Threads :
        /\ pc[t] = "done" /\ op[t] = "get_owned_title_sets"
        /\ errlog[t] = {"radarr"}
        /\ result[t].value.owned_tv \in C28_SetsOf("sonarr")
        /\ result[t].value.owned_movies = {}

\* C29: the cache lock is never held by a thread whose listing fetch is in
\* progress and never by a thread that holds the history lock, so a thread
\* that waits for the cache lock always gets it and clear_cache always
\* completes, even while the listing fetch of another thread never returns.
C29_LockNeverHeldAcrossFetch ==
    /\ [](\A t \in Threads : pc[t] = "fetch" => cacheLock # t)
    /\ [](\A t \in Threads : ~(cacheLock = t /\ historyLock = t))
    /\ \A t \in Callers :
          (pc[t] \in {"check_acq", "store_acq", "clear_acq"}) ~> (cacheLock = t)
    /\ \A t \in Callers : (op[t] = "clear_cache") ~> (pc[t] = "done")

\* clear_cache holds the lock while the other thread is inside its fetch
C29_Witness ==
    \E t, u \in Callers :
        /\ op[t] = "clear_cache" /\ pc[t] = "clear_cs" /\ cacheLock = t
        /\ pc[u] = "fetch"

\* the cache body of clear_cache runs in this step
C30_ClearStep(t) == op[t] = "clear_cache" /\ pc[t] = "clear_cs" /\ pc'[t] = "done"

\* the entries this step changes
C30_Changed == {s \in Sources : cache'[s] # cache[s]}

\* C30: a step that changes a cache entry is the store of a refresh with
\* use_cache=True, which changes the entry of its own source only, or the
\* body of clear_cache, which resets both entries in that one step; a cache
\* check, a failed fetch and every step of a call with use_cache=False
\* change no entry.
C30_EntriesFramed ==
    [][/\ C30_Changed # {} =>
             \/ \E t \in Threads :
                   StoreStep(t) /\ useCache[t] /\ C30_Changed = {src[t]}
             \/ \E t \in Threads :
                   C30_ClearStep(t) /\ \A s \in Sources : cache'[s] = ClearedEntry
       /\ \A t \in Threads :
             (CheckStep(t) \/ FailStep(t)) => cache' = cache
       /\ \A t \in Threads :
             (IsSample(op[t]) /\ ~useCache[t] /\ pc'[t] # pc[t]) => cache' = cache
       /\ \A t \in Threads :
             C30_ClearStep(t) => \A s \in Sources : cache'[s] = ClearedEntry
      ]_vars

\* the series entry was refreshed after the movie entry, which still holds
\* its older timestamp, and a call with use_cache=False has returned
C30_Witness ==
    /\ cache["radarr"].timestamp > 0
    /\ cache["sonarr"].timestamp > cache["radarr"].timestamp
    /\ \E t \in Threads : pc[t] = "done" /\ IsSample(op[t]) /\ ~useCache[t]

====
